---- MODULE Spec2Model ----
(***************************************************************************)
(* Model of the Hacker Jeopardy game session engine                        *)
(* (src/personalities/hacker_jeopardy.py) together with the session store  *)
(* it uses (src/services/database.py).                                     *)
(*                                                                         *)
(* The engine takes no lock.  Inbound messages are handled one at a time   *)
(* on the transport's receive thread (thread 0, "Handler"); every          *)
(* threading.Timer runs its callback on a thread of its own (threads       *)
(* 1..MaxTimers, one per timer object).  The threads interleave between    *)
(* statements, so every statement that reads or writes the engine's        *)
(* fields or the store is one step of the model, labelled by the routine   *)
(* and the source line it executes (pq305 = post_question, line 305).      *)
(*                                                                         *)
(* Time is kept relative to "now": question_closes_at carries               *)
(* closes_at - now in ticks and Tick lets one tick pass.  The delay of a   *)
(* timer is not kept: a started timer fires at any later moment.           *)
(***************************************************************************)
EXTENDS Integers, Sequences, FiniteSets, Bags, TLC

\* ------------------------------------------------------------- bounds
MaxTimers == 3         \* timer objects alive at the same time
MaxSessions == 2       \* rows of hj_sessions
MaxPosted == 2         \* rows of hj_session_questions
MaxAnswers == 2        \* rows of hj_session_answers
MaxPreempt == 1        \* times a thread inside a routine is preempted by another

\* ------------------------------------------------------ configuration
\* Durations are counted in ticks of the model's clock, not in seconds.
HJ_MAX_ROUNDS == 1
HJ_ANSWER_WINDOW == 1

\* User ids and texts are sequences of characters.
Admin == <<"!", "a">>
P1 == <<"!", "p">>
P2 == <<"!", "q">>
Senders == {Admin, P1, P2}
NameOf(u) == IF u = Admin THEN "alice" ELSE IF u = P1 THEN "pat" ELSE "quinn"

\* str.lstrip('!')
RECURSIVE LStripBang(_)
LStripBang(s) == IF s # <<>> /\ Head(s) = "!" THEN LStripBang(Tail(s)) ELSE s

SeqToSet(s) == {s[i] : i \in DOMAIN s}

\* str.lower() and str.strip() on the model's alphabet
LowerChar(c) ==
  CASE c = "A" -> "a" [] c = "B" -> "b" [] c = "C" -> "c" [] c = "T" -> "t" [] OTHER -> c
Lower(s) == [i \in DOMAIN s |-> LowerChar(s[i])]
RECURSIVE LStrip(_)
LStrip(s) == IF s # <<>> /\ Head(s) = " " THEN LStrip(Tail(s)) ELSE s
RECURSIVE RStrip(_)
RStrip(s) == IF s # <<>> /\ s[Len(s)] = " " THEN RStrip(SubSeq(s, 1, Len(s) - 1)) ELSE s
Strip(s) == RStrip(LStrip(s))

\* str.split(sep)
RECURSIVE Split(_, _)
Split(s, sep) ==
  IF \E i \in DOMAIN s : s[i] = sep
  THEN LET i == CHOOSE j \in DOMAIN s : s[j] = sep /\ \A k \in 1..(j - 1) : s[k] # sep
       IN <<SubSeq(s, 1, i - 1)>> \o Split(SubSeq(s, i + 1, Len(s)), sep)
  ELSE <<s>>

\* config.py lines 29-32: the entries of the environment's comma-separated
\* list that are not blank, each stripped of blanks and then of leading '!'
HJ_ADMIN_NODE_IDS(env) ==
  LET kept == SelectSeq(Split(env, ","), LAMBDA x : Strip(x) # <<>>)
  IN [i \in DOMAIN kept |-> LStripBang(Strip(kept[i]))]

\* the list of the game worlds: HJ_ADMIN_NODE_IDS=!a, no list handed over
admin_node_ids == HJ_ADMIN_NODE_IDS(<<"!", "a">>)

\* line 79: the list handed to the constructor unless it is None or empty
admin_node_ids_79(handed, conf) == IF handed # <<>> THEN handed ELSE conf

\* Question banks the engine may have loaded: (text, answers, points); a file
\* without a complete record loads as the empty bank
Q1 == [text |-> "Q1", answers |-> << <<"a">>, <<"b">> >>, points |-> 100]
Q2 == [text |-> "Q2", answers |-> << <<"c">> >>, points |-> 200]
Banks == { <<>>, <<Q1, Q2>> }

\* the default bank's SSH question, and banks that hold it once and twice
Q22 == [text |-> "Q22",
        answers |-> << <<"2", "2">>, <<"t", "w", "e", "n", "t", "y", "-", "t", "w", "o">> >>,
        points |-> 100]
RepeatBanks == { <<Q22>>, <<Q22, Q22>> }

\* Free texts a player may send
AnswerTexts == { <<" ", "A">>, <<"c">> }
TwentyTwo == <<"T", "w", "e", "n", "t", "y", "T", "w", "o">>
PaddedTwentyTwo == <<" ", "T", "w", "e", "n", "t", "y", "-", "T", "w", "o", " ">>

\* Python's None for ids and references; a reference to a timer object that
\* has finished or was cancelled is any slot whose st is "dead".
None == 0
NoneStr == "None"

Handler == 0
TimerIds == 1..MaxTimers
Threads == {Handler} \cup TimerIds

VARIABLES
  self,       \* the engine's fields (HackerJeopardyPersonality.__init__)
  questions,  \* the loaded question bank
  db,         \* the store's tables (BotDatabase.init_db)
  timers,     \* the timer objects: st and kind
  thr,        \* per thread: the statement it is at and its local variables
  msg,        \* the inbound message being handled
  reply,      \* what handle_message returned for it
  emit,       \* what the step just taken sent to the transport
  revealed,   \* the posted questions (store ids) whose answer was revealed
  sched,      \* the thread that is inside a routine, and the preemptions so far
  world       \* which inputs the environment offers in this run

vars == <<self, questions, db, timers, thr, msg, reply, emit, revealed, sched, world>>

STATE_IDLE == "IDLE"
STATE_ACTIVE == "ACTIVE"
STATE_COLLECTING_ANSWERS == "COLLECTING_ANSWERS"

NoMsg == [cmd |-> "none", from |-> <<>>, name |-> "", target |-> <<>>, text |-> <<>>]
NoEmit == <<>>
IdleThr == [pc |-> "idle", q_idx |-> 0, round_num |-> 0, is_correct |-> FALSE,
            points_awarded |-> 0, added |-> FALSE, final_msg |-> <<>>,
            players |-> <<>>, dm_i |-> 0, failed |-> {}]
DeadTimer == [st |-> "dead", kind |-> "none"]

\* ------------------------------------------------------------ the worlds
\* A world fixes what the environment offers in a run: "play" has one game
\* and a player answering it, "restart" has games started one after another
\* and nobody answering, "scores" has one game of two rounds handled without
\* preemption and a player who answers under two display names, "roster" has
\* one game and two players who join and answer it, "denied" has one game
\* and a player who sends the admin's commands, "live" has one game that the
\* admin starts and then leaves to its timers, "lobby" has one game, two
\* players who join it and direct messages that may fail, "skip" has one game
\* of two rounds that the admin skips through and stops, "bans" has one game,
\* a player answering it and the admin banning and unbanning two players,
\* "outage" has one game handled without preemption whose channel broadcasts
\* may fail.
BanksOf(w) == IF w = "scores" THEN RepeatBanks ELSE Banks

\* the engine's max_rounds (config.HJ_MAX_ROUNDS unless the bot passes another)
self_max_rounds(w) == IF w \in {"scores", "skip"} THEN HJ_MAX_ROUNDS + 1 ELSE HJ_MAX_ROUNDS

PreemptCap(w) == IF w \in {"scores", "outage"} THEN 0 ELSE MaxPreempt

\* whether a channel broadcast may fail (mesh.send_text raises, for instance
\* 'Not connected to device')
BroadcastMayFail(w) == w = "outage"

\* whether a direct message may fail to be sent (the transport raises)
DmMayFail(w) == w = "lobby"

\* the engine as __init__ leaves it, given the admin ids it uses, the bank
\* load_questions returned and the first input of the run
Constructed(w, admins, bank, m) ==
  /\ world = w
  /\ self = [admin_node_ids |-> admins,
             state |-> STATE_IDLE,
             session_id |-> None,
             current_question |-> NoneStr,
             current_answers |-> <<>>,
             current_point_value |-> 0,
             current_question_db_id |-> None,
             question_closes_at |-> <<>>,
             used_questions |-> {},
             question_timer |-> None,
             close_timer |-> None]
  /\ questions = bank
  /\ db = [hj_sessions |-> <<>>,
           hj_session_players |-> <<>>,
           hj_session_questions |-> <<>>,
           hj_session_answers |-> EmptyBag,
           banned_users |-> EmptyBag]
  /\ timers = [i \in TimerIds |-> DeadTimer]
  /\ thr = [t \in Threads |-> IdleThr]
  /\ msg = m
  /\ reply = <<"none">>
  /\ emit = NoEmit
  /\ revealed = {}
  /\ sched = [cur |-> <<>>, preempt |-> 0]

Init(w) == \E bank \in BanksOf(w) : Constructed(w, admin_node_ids, bank, NoMsg)

\* is_admin without the lstrip('!') of line 169
is_admin_no_lstrip(user_id) == user_id \in SeqToSet(self.admin_node_ids)

is_admin(user_id) == LStripBang(user_id) \in SeqToSet(self.admin_node_ids)

\* ------------------------------------------------------------ the store
\* A NULL key never conflicts under a UNIQUE constraint (SQLite).
Min(S) == CHOOSE x \in S : \A y \in S : x <= y

create_hj_session(sessions, max_rounds) ==
  Append(sessions, [status |-> "ACTIVE", max_rounds |-> max_rounds, current_round |-> 0])

end_hj_session(sessions, sid) ==
  IF sid \in DOMAIN sessions THEN [sessions EXCEPT ![sid].status = "ENDED"] ELSE sessions

\* the row (current_round, max_rounds, status), or <<>> when there is none
get_hj_session_info(sessions, sid) ==
  IF sid \in DOMAIN sessions THEN <<sessions[sid]>> ELSE <<>>

IncrementRound(sessions, sid) ==
  IF sid \in DOMAIN sessions
  THEN [sessions EXCEPT ![sid].current_round = @ + 1]
  ELSE sessions

\* record_hj_question: the inserted row, then the round counter
QuestionRow(sid, q_idx, q) ==
  [session_id |-> sid, question_id |-> <<sid, q_idx>>, question_text |-> q.text,
   point_value |-> q.points, correct_answer |-> q.answers[1]]

AnswerConflict(answers, sid, qid, node) ==
  /\ sid # None
  /\ qid # None
  /\ \E r \in BagToSet(answers) :
        r.session_id = sid /\ r.question_id = qid /\ r.node_id = node

AnswerRow(sid, qid, node, username, text, points) ==
  [session_id |-> sid, question_id |-> qid, node_id |-> node, username |-> username,
   answer_text |-> text, points_awarded |-> points]

PlayerConflict(players, sid, user) ==
  /\ sid # None
  /\ \E i \in DOMAIN players : players[i].session_id = sid /\ players[i].user_id = user

get_session_players(players, sid) ==
  SelectSeq(players, LAMBDA r : sid # None /\ r.session_id = sid)

is_banned(banned, node) == BagIn(node, banned)

RECURSIVE SumPoints(_, _)
SumPoints(answers, rows) ==
  IF rows = {} THEN 0
  ELSE LET r == CHOOSE x \in rows : TRUE
       IN r.points_awarded * CopiesIn(r, answers) + SumPoints(answers, rows \ {r})

RECURSIVE SumCopies(_, _)
SumCopies(answers, rows) ==
  IF rows = {} THEN 0
  ELSE LET r == CHOOSE x \in rows : TRUE
       IN CopiesIn(r, answers) + SumCopies(answers, rows \ {r})

\* get_hj_session_leaderboard: one entry per (node_id, username) group
SessionRows(answers, sid) ==
  {r \in BagToSet(answers) : sid # None /\ r.session_id = sid}

get_hj_session_leaderboard(answers, sid) ==
  { [node_id |-> g[1], username |-> g[2],
     total_points |-> SumPoints(answers,
        {r \in SessionRows(answers, sid) : r.node_id = g[1] /\ r.username = g[2]})]
    : g \in {<<r.node_id, r.username>> : r \in SessionRows(answers, sid)} }

\* ----------------------------------------------------------- the timers
\* threading.Timer: created ("new"), started ("armed"), calling its function
\* ("running"), finished or cancelled before it ran ("dead").  cancel() of a
\* timer that was not started yet makes its later start() a no-op.
Referenced(s, i) == s.question_timer = i \/ s.close_timer = i

\* the timer table once the field `old` no longer refers to its timer
Dropped(tm, old) ==
  IF old # None /\ tm[old].st \in {"new", "cancelled_new"}
  THEN [tm EXCEPT ![old] = DeadTimer]
  ELSE tm

FreeSlots(tm, other) == {i \in TimerIds : tm[i].st = "dead" /\ i # other}

Cancel(tm, i) ==
  IF i = None THEN tm
  ELSE CASE tm[i].st = "armed" -> [tm EXCEPT ![i] = DeadTimer]
         [] tm[i].st = "new" -> [tm EXCEPT ![i].st = "cancelled_new"]
         [] OTHER -> tm

CanStart(tm, i) == i # None /\ tm[i].st \in {"new", "cancelled_new"}

Start(tm, i) ==
  IF tm[i].st = "new" THEN [tm EXCEPT ![i].st = "armed"] ELSE [tm EXCEPT ![i] = DeadTimer]

\* ----------------------------------------------------- control transfer
Goto(t, l) == thr' = [thr EXCEPT ![t].pc = l]

\* thread t leaves its outermost routine: the handler returns r as the reply
\* to the message, a timer thread ends
ThreadEnds(tm, t) == IF t = Handler THEN tm ELSE [tm EXCEPT ![t] = DeadTimer]

Return(t, r) ==
  /\ thr' = [thr EXCEPT ![t] = IF t = Handler THEN [IdleThr EXCEPT !.pc = "done"]
                                ELSE IdleThr]
  /\ reply' = IF t = Handler THEN r ELSE reply

At(t, l) == thr[t].pc = l

Accept(m, cmd) == thr[Handler].pc = "idle" /\ m.cmd = cmd /\ msg' = m

\* ------------------------------------------------------------ scheduling
\* Any thread may run whenever no thread is inside a routine; a step taken
\* while another thread is inside a routine preempts it, and a behaviour has
\* at most PreemptCap(world) preemptions (a tick of the clock inside a routine
\* counts as one).
Inside(t) == IF thr'[t].pc \in {"idle", "done"} THEN <<>> ELSE <<t>>

Sched(t) ==
  IF sched.cur = <<>> \/ sched.cur = <<t>>
  THEN sched' = [sched EXCEPT !.cur = Inside(t)]
  ELSE /\ sched.preempt < PreemptCap(world)
       /\ sched' = [cur |-> Inside(t), preempt |-> sched.preempt + 1]

SchedClock ==
  IF sched.cur = <<>>
  THEN UNCHANGED sched
  ELSE /\ sched.preempt < PreemptCap(world)
       /\ sched' = [sched EXCEPT !.preempt = @ + 1]

Finish(t, r) == Return(t, r) /\ timers' = ThreadEnds(timers, t)

\* an uncaught exception ends the routine and every caller of it on the thread
Raise(t) == Finish(t, <<"exception">>)

Next_(t, l) == Goto(t, l) /\ UNCHANGED <<reply, timers>>

\* what post_to_channel(text) may do in this world: hand the text to the
\* transport, or let the exception of mesh.send_text through (lines 188-192
\* have no try); no text, nothing sent
post_to_channel(text) ==
  {text} \cup (IF BroadcastMayFail(world) /\ text # NoEmit THEN {<<"send_failed">>} ELSE {})

\* ------------------------------------------------------------ start_game
\* The "play" world has one game and players answering it; the "restart"
\* world has games started one after another and nobody answering.
SessionCap(w) == IF w = "restart" THEN MaxSessions ELSE 1

\* start_game with the admin check moved before the state check
start_game_196_admin_first(m) ==
  /\ Accept(m, "start")
  /\ IF ~is_admin(m.from) THEN Finish(Handler, <<"OnlyAdminsCanStart">>)
     ELSE IF self.state # STATE_IDLE THEN Finish(Handler, <<"GameAlreadyInProgress">>)
     ELSE Len(db.hj_sessions) < SessionCap(world) /\ Next_(Handler, "sg207")
  /\ emit' = NoEmit
  /\ UNCHANGED <<self, questions, world, db, revealed>>
  /\ Sched(Handler)

start_game_196(m) ==
  /\ Accept(m, "start")
  /\ IF self.state # STATE_IDLE THEN Finish(Handler, <<"GameAlreadyInProgress">>)
     ELSE IF ~is_admin(m.from) THEN Finish(Handler, <<"OnlyAdminsCanStart">>)
     ELSE Len(db.hj_sessions) < SessionCap(world) /\ Next_(Handler, "sg207")
  /\ emit' = NoEmit
  /\ UNCHANGED <<self, questions, world, db, revealed>>
  /\ Sched(Handler)

start_game_207 ==
  /\ At(Handler, "sg207")
  /\ db' = [db EXCEPT !.hj_sessions = create_hj_session(@, self_max_rounds(world))]
  /\ self' = [self EXCEPT !.session_id = Len(db.hj_sessions) + 1]
  /\ Next_(Handler, "sg208")
  /\ emit' = NoEmit
  /\ UNCHANGED <<questions, world, msg, revealed>>
  /\ Sched(Handler)

start_game_208 ==
  /\ At(Handler, "sg208")
  /\ self' = [self EXCEPT !.state = STATE_ACTIVE]
  /\ Next_(Handler, "sg209")
  /\ emit' = NoEmit
  /\ UNCHANGED <<questions, world, db, msg, revealed>>
  /\ Sched(Handler)

start_game_209 ==
  /\ At(Handler, "sg209")
  /\ self' = [self EXCEPT !.used_questions = {}]
  /\ Next_(Handler, "sg221")
  /\ emit' = NoEmit
  /\ UNCHANGED <<questions, world, db, msg, revealed>>
  /\ Sched(Handler)

start_game_221 ==
  /\ At(Handler, "sg221")
  /\ emit' \in post_to_channel(<<"intro">>)
  /\ IF emit' = <<"send_failed">> THEN Raise(Handler) ELSE Next_(Handler, "sg263")
  /\ UNCHANGED <<self, questions, world, db, msg, revealed>>
  /\ Sched(Handler)

\* ------------------------------------------------ schedule_next_question
\* line 263: self.question_timer = threading.Timer(delay, self.post_question)
Schedule_263(t, l) ==
  LET tm == Dropped(timers, self.question_timer)
      free == FreeSlots(tm, self.close_timer)
  IN /\ free # {}
     /\ timers' = [tm EXCEPT ![Min(free)] = [st |-> "new", kind |-> "post"]]
     /\ self' = [self EXCEPT !.question_timer = Min(free)]
     /\ Goto(t, l)
     /\ emit' = NoEmit
     /\ UNCHANGED <<questions, world, db, msg, reply, revealed>>
     /\ Sched(t)

\* schedule_next_question that creates the timer and never starts it
Schedule_265_no_start(t, r) ==
  /\ timers' = ThreadEnds(timers, t)
  /\ Return(t, r)
  /\ emit' = NoEmit
  /\ UNCHANGED <<self, questions, world, db, msg, revealed>>
  /\ Sched(t)

\* line 265: self.question_timer.start(), after which the caller returns r;
\* starting a timer a second time raises RuntimeError
Schedule_265(t, r) ==
  /\ IF CanStart(timers, self.question_timer)
     THEN /\ timers' = ThreadEnds(Start(timers, self.question_timer), t)
          /\ Return(t, r)
     ELSE Raise(t)
  /\ emit' = NoEmit
  /\ UNCHANGED <<self, questions, world, db, msg, revealed>>
  /\ Sched(t)

start_game_263 == At(Handler, "sg263") /\ Schedule_263(Handler, "sg265")

start_game_265 == At(Handler, "sg265") /\ Schedule_265(Handler, <<"GameStarted">>)

\* ------------------------------------------------------ post_final_scores
\* What post_final_scores sends; its caller keeps it in final_msg (<<>> when
\* the routine returned without sending).
\* post_final_scores that returns without a message when nobody scored
FinalScores_silent(s, d) ==
  IF s.session_id = None THEN NoEmit
  ELSE IF get_hj_session_leaderboard(d.hj_session_answers, s.session_id) = {}
       THEN NoEmit
       ELSE <<"final_scores", get_hj_session_leaderboard(d.hj_session_answers, s.session_id)>>

FinalScores(s, d) ==
  IF s.session_id = None THEN NoEmit
  ELSE IF get_hj_session_leaderboard(d.hj_session_answers, s.session_id) = {}
       THEN <<"game_over_no_scores">>
       ELSE <<"final_scores", get_hj_session_leaderboard(d.hj_session_answers, s.session_id)>>

\* ------------------------------------------------------------- stop_game
stop_game_230(t, caller) ==
  /\ IF self.state = STATE_IDLE THEN Finish(t, <<"NoGameInProgress">>)
     ELSE IF ~is_admin(caller) THEN Finish(t, <<"OnlyAdminsCanStop">>)
     ELSE Next_(t, "st237")
  /\ emit' = NoEmit
  /\ UNCHANGED <<self, questions, world, db, revealed>>
  /\ Sched(t)

stop_game_recv(m) == Accept(m, "stop") /\ stop_game_230(Handler, m.from)

\* post_question's call: stop_game(admin_node_ids[0] if admin_node_ids else "")
stop_game_call(t) ==
  /\ t \in TimerIds /\ At(t, "st230")
  /\ stop_game_230(t, IF admin_node_ids # <<>> THEN admin_node_ids[1] ELSE <<>>)
  /\ UNCHANGED msg

stop_game_237(t) ==
  /\ At(t, "st237")
  /\ timers' = Cancel(timers, self.question_timer)
  /\ Goto(t, "st239")
  /\ emit' = NoEmit
  /\ UNCHANGED <<self, questions, world, db, msg, reply, revealed>>
  /\ Sched(t)

stop_game_239(t) ==
  /\ At(t, "st239")
  /\ timers' = Cancel(timers, self.close_timer)
  /\ Goto(t, "st243")
  /\ emit' = NoEmit
  /\ UNCHANGED <<self, questions, world, db, msg, reply, revealed>>
  /\ Sched(t)

stop_game_243(t) ==
  /\ At(t, "st243")
  /\ db' = [db EXCEPT !.hj_sessions = end_hj_session(@, self.session_id)]
  /\ Next_(t, "st247")
  /\ emit' = NoEmit
  /\ UNCHANGED <<self, questions, world, msg, revealed>>
  /\ Sched(t)

stop_game_247(t) ==
  /\ At(t, "st247")
  /\ emit' \in post_to_channel(FinalScores(self, db))
  /\ IF emit' = <<"send_failed">> THEN Raise(t)
     ELSE /\ thr' = [thr EXCEPT ![t].pc = "st250", ![t].final_msg = FinalScores(self, db)]
          /\ UNCHANGED <<reply, timers>>
  /\ UNCHANGED <<self, questions, world, db, msg, revealed>>
  /\ Sched(t)

stop_game_250(t) ==
  /\ At(t, "st250")
  /\ self' = [self EXCEPT !.state = STATE_IDLE]
  /\ Next_(t, "st251")
  /\ emit' = NoEmit
  /\ UNCHANGED <<questions, world, db, msg, revealed>>
  /\ Sched(t)

stop_game_251(t) ==
  /\ At(t, "st251")
  /\ self' = [self EXCEPT !.session_id = None]
  /\ Next_(t, "st252")
  /\ emit' = NoEmit
  /\ UNCHANGED <<questions, world, db, msg, revealed>>
  /\ Sched(t)

stop_game_252(t) ==
  /\ At(t, "st252")
  /\ self' = [self EXCEPT !.current_question = NoneStr]
  /\ Finish(t, <<"GameStopped">>)
  /\ emit' = NoEmit
  /\ UNCHANGED <<questions, world, db, msg, revealed>>
  /\ Sched(t)

\* --------------------------------------------------------- post_question
post_question_270(t) ==
  /\ At(t, "pq270")
  /\ IF self.state = STATE_IDLE THEN Finish(t, <<"none">>) ELSE Next_(t, "pq275")
  /\ emit' = NoEmit
  /\ UNCHANGED <<self, questions, world, db, msg, revealed>>
  /\ Sched(t)

RoundsExhausted(info) == info # <<>> /\ info[1].current_round >= info[1].max_rounds

post_question_275(t) ==
  /\ At(t, "pq275")
  /\ IF RoundsExhausted(get_hj_session_info(db.hj_sessions, self.session_id))
     THEN Next_(t, "pq280")
     ELSE Next_(t, "pq287")
  /\ emit' = NoEmit
  /\ UNCHANGED <<self, questions, world, db, msg, revealed>>
  /\ Sched(t)

post_question_280(t) ==
  /\ At(t, "pq280")
  /\ emit' = <<"final_round_complete">>
  /\ Next_(t, "pq281")
  /\ UNCHANGED <<self, questions, world, db, msg, revealed>>
  /\ Sched(t)

post_question_281(t) ==
  /\ At(t, "pq281")
  /\ emit' \in post_to_channel(FinalScores(self, db))
  /\ IF emit' = <<"send_failed">> THEN Raise(t)
     ELSE /\ thr' = [thr EXCEPT ![t].pc = "pq282", ![t].final_msg = FinalScores(self, db)]
          /\ UNCHANGED <<reply, timers>>
  /\ UNCHANGED <<self, questions, world, db, msg, revealed>>
  /\ Sched(t)

post_question_282(t) ==
  /\ At(t, "pq282")
  /\ self' = [self EXCEPT !.state = STATE_IDLE]
  /\ Next_(t, "pq283")
  /\ emit' = NoEmit
  /\ UNCHANGED <<questions, world, db, msg, revealed>>
  /\ Sched(t)

post_question_283(t) ==
  /\ At(t, "pq283")
  /\ db' = [db EXCEPT !.hj_sessions = end_hj_session(@, self.session_id)]
  /\ Finish(t, <<"none">>)
  /\ emit' = NoEmit
  /\ UNCHANGED <<self, questions, world, msg, revealed>>
  /\ Sched(t)

\* lines 287-294
Available(bank, used) == {i \in DOMAIN bank : i \notin used}

\* list.index: the first position holding an equal tuple
IndexOf(bank, q) == Min({i \in DOMAIN bank : bank[i] = q})

post_question_287(t) ==
  /\ At(t, "pq287")
  /\ IF Available(questions, self.used_questions) = {}
     THEN Goto(t, "pq289")
     ELSE \E i \in Available(questions, self.used_questions) :
            thr' = [thr EXCEPT ![t].pc = "pq295",
                               ![t].q_idx = IndexOf(questions, questions[i])]
  /\ emit' = NoEmit
  /\ UNCHANGED <<self, questions, world, db, timers, msg, reply, revealed>>
  /\ Sched(t)

post_question_289(t) ==
  /\ At(t, "pq289")
  /\ emit' = <<"out_of_questions">>
  /\ Next_(t, "st230")
  /\ UNCHANGED <<self, questions, world, db, msg, revealed>>
  /\ Sched(t)

post_question_295(t) ==
  /\ At(t, "pq295")
  /\ self' = [self EXCEPT !.used_questions = @ \cup {thr[t].q_idx}]
  /\ Next_(t, "pq298")
  /\ emit' = NoEmit
  /\ UNCHANGED <<questions, world, db, msg, revealed>>
  /\ Sched(t)

post_question_298(t) ==
  /\ At(t, "pq298")
  /\ self' = [self EXCEPT !.current_question = questions[thr[t].q_idx].text]
  /\ Next_(t, "pq299")
  /\ emit' = NoEmit
  /\ UNCHANGED <<questions, world, db, msg, revealed>>
  /\ Sched(t)

post_question_299(t) ==
  /\ At(t, "pq299")
  /\ self' = [self EXCEPT !.current_answers = questions[thr[t].q_idx].answers]
  /\ Next_(t, "pq300")
  /\ emit' = NoEmit
  /\ UNCHANGED <<questions, world, db, msg, revealed>>
  /\ Sched(t)

post_question_300(t) ==
  /\ At(t, "pq300")
  /\ self' = [self EXCEPT !.current_point_value = questions[thr[t].q_idx].points]
  /\ Next_(t, "pq301")
  /\ emit' = NoEmit
  /\ UNCHANGED <<questions, world, db, msg, revealed>>
  /\ Sched(t)

\* closes_at = now + answer_window, kept as closes_at - now
post_question_301(t) ==
  /\ At(t, "pq301")
  /\ self' = [self EXCEPT !.question_closes_at = <<HJ_ANSWER_WINDOW>>]
  /\ Next_(t, "pq305")
  /\ emit' = NoEmit
  /\ UNCHANGED <<questions, world, db, msg, revealed>>
  /\ Sched(t)

\* lines 304-308: record_hj_question inserts the row and increments the round
record_hj_question(d, sid, q_idx, q) ==
  [d EXCEPT !.hj_session_questions = Append(@, QuestionRow(sid, q_idx, q)),
            !.hj_sessions = IncrementRound(@, sid)]

post_question_305(t) ==
  /\ At(t, "pq305")
  /\ Len(db.hj_session_questions) < MaxPosted
  /\ db' = record_hj_question(db, self.session_id, thr[t].q_idx, questions[thr[t].q_idx])
  /\ self' = [self EXCEPT !.current_question_db_id = Len(db.hj_session_questions) + 1]
  /\ Next_(t, "pq311")
  /\ emit' = NoEmit
  /\ UNCHANGED <<questions, world, msg, revealed>>
  /\ Sched(t)

RoundNum(info) == IF info # <<>> THEN info[1].current_round ELSE 0

\* lines 311-318: the channel announcement
post_question_311(t) ==
  /\ At(t, "pq311")
  /\ LET round_num == RoundNum(get_hj_session_info(db.hj_sessions, self.session_id))
     IN /\ emit' \in post_to_channel(<<"announce", round_num, questions[thr[t].q_idx].points,
                                         questions[thr[t].q_idx].text>>)
        /\ IF emit' = <<"send_failed">> THEN Raise(t)
           ELSE /\ thr' = [thr EXCEPT ![t].pc = "pq321", ![t].round_num = round_num]
                /\ UNCHANGED <<timers, reply>>
  /\ UNCHANGED <<self, questions, world, db, msg, revealed>>
  /\ Sched(t)

\* what mesh.send_text(dm_msg, destination=user) may do in this world: deliver
\* the message, or raise, which the caller catches and logs
SendDm(user, round_num, text) ==
  {<<"dm", <<user>>, round_num, text>>}
  \cup (IF DmMayFail(world) THEN {<<"dm_failed", <<user>>>>} ELSE {})

\* lines 321-323: the roster is read once, the loop goes over that list
post_question_321(t) ==
  /\ At(t, "pq321")
  /\ LET players == get_session_players(db.hj_session_players, self.session_id)
     IN thr' = [thr EXCEPT ![t].pc = IF players = <<>> THEN "pq330" ELSE "pq325",
                           ![t].players = [i \in DOMAIN players |-> players[i].user_id],
                           ![t].dm_i = 0,
                           ![t].failed = {}]
  /\ emit' = NoEmit
  /\ UNCHANGED <<self, questions, world, db, timers, msg, reply, revealed>>
  /\ Sched(t)

\* the locals after one turn of the loop: the next player of the list, and
\* the players whose send raised (the 'Failed to DM' lines of the log)
Turn(t, sent) ==
  [thr EXCEPT ![t].pc = IF thr[t].dm_i + 1 = Len(thr[t].players) THEN "pq330" ELSE "pq325",
              ![t].dm_i = @ + 1,
              ![t].failed = IF sent[1] = "dm_failed"
                            THEN @ \cup {thr[t].players[thr[t].dm_i + 1]} ELSE @]

\* the loop body with a send whose exception is not caught
post_question_325_uncaught(t) ==
  /\ At(t, "pq325")
  /\ emit' \in SendDm(thr[t].players[thr[t].dm_i + 1], thr[t].round_num,
                       questions[thr[t].q_idx].text)
  /\ IF emit'[1] = "dm_failed"
     THEN Raise(t)
     ELSE thr' = Turn(t, emit') /\ UNCHANGED <<reply, timers>>
  /\ UNCHANGED <<self, questions, world, db, msg, revealed>>
  /\ Sched(t)

\* lines 324-328: one turn of the loop, the question sent to the next player of
\* the list; an exception of the send is caught and logged
post_question_325(t) ==
  /\ At(t, "pq325")
  /\ emit' \in SendDm(thr[t].players[thr[t].dm_i + 1], thr[t].round_num,
                       questions[thr[t].q_idx].text)
  /\ thr' = Turn(t, emit')
  /\ UNCHANGED <<reply, timers>>
  /\ UNCHANGED <<self, questions, world, db, msg, revealed>>
  /\ Sched(t)

post_question_330(t) ==
  /\ At(t, "pq330")
  /\ self' = [self EXCEPT !.state = STATE_COLLECTING_ANSWERS]
  /\ Next_(t, "pq335")
  /\ emit' = NoEmit
  /\ UNCHANGED <<questions, world, db, msg, revealed>>
  /\ Sched(t)

post_question_335(t) ==
  /\ At(t, "pq335")
  /\ LET tm == Dropped(timers, self.close_timer)
         free == FreeSlots(tm, self.question_timer)
     IN /\ free # {}
        /\ timers' = [tm EXCEPT ![Min(free)] =
                        [st |-> "new", kind |-> "close"]]
        /\ self' = [self EXCEPT !.close_timer = Min(free)]
  /\ Goto(t, "pq337")
  /\ emit' = NoEmit
  /\ UNCHANGED <<questions, world, db, msg, reply, revealed>>
  /\ Sched(t)

\* post_question that creates the close timer and never starts it
post_question_337_no_start(t) ==
  /\ At(t, "pq337")
  /\ timers' = ThreadEnds(timers, t)
  /\ Return(t, <<"none">>)
  /\ emit' = NoEmit
  /\ UNCHANGED <<self, questions, world, db, msg, revealed>>
  /\ Sched(t)

post_question_337(t) ==
  /\ At(t, "pq337")
  /\ IF CanStart(timers, self.close_timer)
     THEN /\ timers' = ThreadEnds(Start(timers, self.close_timer), t)
          /\ Return(t, <<"none">>)
     ELSE Raise(t)
  /\ emit' = NoEmit
  /\ UNCHANGED <<self, questions, world, db, msg, revealed>>
  /\ Sched(t)

\* -------------------------------------------------------- close_question
\* what close_question's caller does with its return: the `next` handler
\* replies, a timer thread ends
\* close_question without its guard
close_question_342_unguarded(t) ==
  /\ At(t, "cq342")
  /\ Next_(t, "cq347")
  /\ emit' = NoEmit
  /\ UNCHANGED <<self, questions, world, db, msg, revealed>>
  /\ Sched(t)

close_question_342(t) ==
  /\ At(t, "cq342")
  /\ IF self.state # STATE_COLLECTING_ANSWERS
     THEN Finish(t, <<"QuestionSkipped">>)
     ELSE Next_(t, "cq347")
  /\ emit' = NoEmit
  /\ UNCHANGED <<self, questions, world, db, msg, revealed>>
  /\ Sched(t)

\* lines 347-348; current_answers[0] of an empty list raises IndexError
close_question_347(t) ==
  /\ At(t, "cq347")
  /\ IF self.current_answers = <<>>
     THEN Raise(t) /\ emit' = NoEmit /\ UNCHANGED revealed
     ELSE /\ emit' \in post_to_channel(<<"reveal", self.current_answers[1]>>)
          /\ IF emit' = <<"send_failed">> THEN Raise(t) /\ UNCHANGED revealed
             ELSE /\ revealed' = revealed \cup {self.current_question_db_id}
                  /\ Next_(t, "cq351")
  /\ UNCHANGED <<self, questions, world, db, msg>>
  /\ Sched(t)

close_question_351(t) ==
  /\ At(t, "cq351")
  /\ self' = [self EXCEPT !.current_question = NoneStr]
  /\ Next_(t, "cq352")
  /\ emit' = NoEmit
  /\ UNCHANGED <<questions, world, db, msg, revealed>>
  /\ Sched(t)

close_question_352(t) ==
  /\ At(t, "cq352")
  /\ self' = [self EXCEPT !.current_answers = <<>>]
  /\ Next_(t, "cq353")
  /\ emit' = NoEmit
  /\ UNCHANGED <<questions, world, db, msg, revealed>>
  /\ Sched(t)

close_question_353(t) ==
  /\ At(t, "cq353")
  /\ self' = [self EXCEPT !.current_point_value = 0]
  /\ Next_(t, "cq354")
  /\ emit' = NoEmit
  /\ UNCHANGED <<questions, world, db, msg, revealed>>
  /\ Sched(t)

close_question_354(t) ==
  /\ At(t, "cq354")
  /\ self' = [self EXCEPT !.current_question_db_id = None]
  /\ Next_(t, "cq355")
  /\ emit' = NoEmit
  /\ UNCHANGED <<questions, world, db, msg, revealed>>
  /\ Sched(t)

close_question_355(t) ==
  /\ At(t, "cq355")
  /\ self' = [self EXCEPT !.state = STATE_ACTIVE]
  /\ Next_(t, "cq263")
  /\ emit' = NoEmit
  /\ UNCHANGED <<questions, world, db, msg, revealed>>
  /\ Sched(t)

close_question_263(t) ==
  At(t, "cq263") /\ Schedule_263(t, "cq265")

close_question_265(t) == At(t, "cq265") /\ Schedule_265(t, <<"QuestionSkipped">>)

\* ------------------------------------------- handle_message: `!hj next`
\* `!hj next` without the admin check
next_420_no_admin_check(m) ==
  /\ Accept(m, "next")
  /\ timers' = Cancel(timers, self.close_timer)
  /\ Goto(Handler, "cq342")
  /\ UNCHANGED reply
  /\ emit' = NoEmit
  /\ UNCHANGED <<self, questions, world, db, revealed>>
  /\ Sched(Handler)

next_420(m) ==
  /\ Accept(m, "next")
  /\ IF ~is_admin(m.from)
     THEN Finish(Handler, <<"OnlyAdminsCanSkip">>)
     ELSE /\ timers' = Cancel(timers, self.close_timer)
          /\ Goto(Handler, "cq342")
          /\ UNCHANGED reply
  /\ emit' = NoEmit
  /\ UNCHANGED <<self, questions, world, db, revealed>>
  /\ Sched(Handler)

\* ------------------------------------------------------------ the clock
Fire(i) ==
  /\ timers[i].st = "armed"
  /\ timers' = [timers EXCEPT ![i].st = "running"]
  /\ Goto(i, IF timers[i].kind = "post" THEN "pq270" ELSE "cq342")
  /\ emit' = NoEmit
  /\ UNCHANGED <<self, questions, world, db, msg, reply, revealed>>
  /\ Sched(i)

TickClose(c) == IF c # <<>> /\ c[1] >= 0 THEN <<c[1] - 1>> ELSE c

Tick ==
  /\ self' = [self EXCEPT !.question_closes_at = TickClose(@)]
  /\ self' # self
  /\ emit' = NoEmit
  /\ UNCHANGED <<questions, world, db, timers, thr, msg, reply, revealed>>
  /\ SchedClock

\* the receive thread is ready for the next message
Done ==
  /\ At(Handler, "done")
  /\ thr' = [thr EXCEPT ![Handler] = IdleThr]
  /\ msg' = NoMsg
  /\ reply' = <<"none">>
  /\ emit' = NoEmit
  /\ UNCHANGED <<self, questions, world, db, timers, revealed>>
  /\ UNCHANGED sched

\* -------------------------------------------------------- process_answer
StartsWithBang(text) == Strip(Lower(text)) # <<>> /\ Head(Strip(Lower(text))) = "!"

\* process_answer without the ban check
process_answer_368_no_ban_check(m) ==
  /\ Accept(m, "text") /\ ~StartsWithBang(m.text)
  /\ Next_(Handler, "pa372")
  /\ emit' = NoEmit
  /\ UNCHANGED <<self, questions, world, db, revealed>>
  /\ Sched(Handler)

process_answer_368(m) ==
  /\ Accept(m, "text") /\ ~StartsWithBang(m.text)
  /\ IF is_banned(db.banned_users, m.from)
     THEN Finish(Handler, <<"Banned">>)
     ELSE Next_(Handler, "pa372")
  /\ emit' = NoEmit
  /\ UNCHANGED <<self, questions, world, db, revealed>>
  /\ Sched(Handler)

\* process_answer without the state test of line 372
process_answer_372_no_state_check ==
  /\ At(Handler, "pa372")
  /\ Next_(Handler, "pa379")
  /\ emit' = NoEmit
  /\ UNCHANGED <<self, questions, world, db, msg, revealed>>
  /\ Sched(Handler)

\* process_answer that turns away a sender who is not on the session's roster
process_answer_372_roster_only ==
  /\ At(Handler, "pa372")
  /\ IF \/ self.state # STATE_COLLECTING_ANSWERS
        \/ ~PlayerConflict(db.hj_session_players, self.session_id, msg.from)
     THEN Next_(Handler, "pa373")
     ELSE Next_(Handler, "pa379")
  /\ emit' = NoEmit
  /\ UNCHANGED <<self, questions, world, db, msg, revealed>>
  /\ Sched(Handler)

process_answer_372 ==
  /\ At(Handler, "pa372")
  /\ IF self.state # STATE_COLLECTING_ANSWERS
     THEN Next_(Handler, "pa373")
     ELSE Next_(Handler, "pa379")
  /\ emit' = NoEmit
  /\ UNCHANGED <<self, questions, world, db, msg, revealed>>
  /\ Sched(Handler)

\* lines 373-376: the state is read again to choose the reply
process_answer_373 ==
  /\ At(Handler, "pa373")
  /\ IF self.state = STATE_IDLE
     THEN Finish(Handler, <<"NoGameInProgress">>)
     ELSE Finish(Handler, <<"NoActiveQuestion">>)
  /\ emit' = NoEmit
  /\ UNCHANGED <<self, questions, world, db, msg, revealed>>
  /\ Sched(Handler)

\* datetime.now().isoformat() > closes_at: both are ISO strings of local
\* time, ordered as the instants are, so the test is now > closes_at
IsLate(closes_at) == 0 > closes_at[1]

process_answer_379 ==
  /\ At(Handler, "pa379")
  /\ IF self.question_closes_at = <<>> THEN Raise(Handler)
     ELSE IF IsLate(self.question_closes_at)
          THEN Finish(Handler, <<"TooLate">>)
          ELSE Next_(Handler, "pa385")
  /\ emit' = NoEmit
  /\ UNCHANGED <<self, questions, world, db, msg, revealed>>
  /\ Sched(Handler)

\* the membership test without the strip
IsCorrect_no_strip(text, answers) == Lower(text) \in SeqToSet(answers)

\* lines 382-385
IsCorrect(text, answers) == Strip(Lower(text)) \in SeqToSet(answers)

process_answer_385 ==
  /\ At(Handler, "pa385")
  /\ thr' = [thr EXCEPT ![Handler].pc = "pa386",
                        ![Handler].is_correct = IsCorrect(msg.text, self.current_answers)]
  /\ emit' = NoEmit
  /\ UNCHANGED <<self, questions, world, db, timers, msg, reply, revealed>>
  /\ Sched(Handler)

PointsAwarded(is_correct, point_value) == IF is_correct THEN point_value ELSE -point_value

process_answer_386 ==
  /\ At(Handler, "pa386")
  /\ thr' = [thr EXCEPT ![Handler].pc = "pa389",
                        ![Handler].points_awarded =
                           PointsAwarded(thr[Handler].is_correct, self.current_point_value)]
  /\ emit' = NoEmit
  /\ UNCHANGED <<self, questions, world, db, timers, msg, reply, revealed>>
  /\ Sched(Handler)

\* record_hj_answer: one INSERT under UNIQUE(session_id, question_id, node_id)
record_hj_answer(answers, sid, qid, node, username, text, points) ==
  IF AnswerConflict(answers, sid, qid, node)
  THEN answers
  ELSE answers (+) SetToBag({AnswerRow(sid, qid, node, username, text, points)})

process_answer_389 ==
  /\ At(Handler, "pa389")
  /\ IF AnswerConflict(db.hj_session_answers, self.session_id,
                       self.current_question_db_id, msg.from)
     THEN /\ Finish(Handler, <<"AlreadyAnswered">>)
          /\ UNCHANGED db
     ELSE /\ BagCardinality(db.hj_session_answers) < MaxAnswers
          /\ db' = [db EXCEPT !.hj_session_answers =
                      record_hj_answer(@, self.session_id, self.current_question_db_id,
                                       msg.from, msg.name, msg.text,
                                       thr[Handler].points_awarded)]
          /\ Next_(Handler, "pa398")
  /\ emit' = NoEmit
  /\ UNCHANGED <<self, questions, world, msg, revealed>>
  /\ Sched(Handler)

\* lines 398-401; current_answers[0] of an empty list raises IndexError
process_answer_398 ==
  /\ At(Handler, "pa398")
  /\ IF thr[Handler].is_correct
     THEN Finish(Handler, <<"Correct", self.current_point_value>>)
     ELSE IF self.current_answers = <<>>
          THEN Raise(Handler)
          ELSE Finish(Handler, <<"Wrong", self.current_point_value, self.current_answers[1]>>)
  /\ emit' = NoEmit
  /\ UNCHANGED <<self, questions, world, db, msg, revealed>>
  /\ Sched(Handler)

\* -------------------------------------------- handle_message: the others
\* handle_message without the test of line 477: the text goes to process_answer
unknown_481_as_answer(m) ==
  /\ Accept(m, "text") /\ StartsWithBang(m.text)
  /\ Next_(Handler, "pa372")
  /\ emit' = NoEmit
  /\ UNCHANGED <<self, questions, world, db, revealed>>
  /\ Sched(Handler)

unknown_481(m) ==
  /\ Accept(m, "text") /\ StartsWithBang(m.text)
  /\ Finish(Handler, <<"UnknownCommand">>)
  /\ emit' = NoEmit
  /\ UNCHANGED <<self, questions, world, db, revealed>>
  /\ Sched(Handler)

\* the rows of banned_users are kept by their node_id (a bag, so that a table
\* without the PRIMARY KEY can hold a node twice)
\* a plain INSERT into a table without PRIMARY KEY(node_id)
ban_user_no_key(banned, node) == banned (+) SetToBag({node})

\* DELETE FROM banned_users WHERE node_id = ?
unban_user(banned, node) == [n \in DOMAIN banned \ {node} |-> banned[n]]

\* INSERT OR REPLACE: the row with the same node_id is deleted, then the new
\* row is inserted
ban_user(banned, node) == unban_user(banned, node) (+) SetToBag({node})

ban_428(m) ==
  /\ Accept(m, "ban")
  /\ IF ~is_admin(m.from)
     THEN Finish(Handler, <<"OnlyAdminsCanBan">>) /\ UNCHANGED db
     ELSE /\ db' = [db EXCEPT !.banned_users = ban_user(@, Strip(m.target))]
          /\ Finish(Handler, <<"Banned", Strip(m.target)>>)
  /\ emit' = NoEmit
  /\ UNCHANGED <<self, questions, world, revealed>>
  /\ Sched(Handler)

unban_435(m) ==
  /\ Accept(m, "unban")
  /\ IF ~is_admin(m.from)
     THEN Finish(Handler, <<"OnlyAdminsCanUnban">>) /\ UNCHANGED db
     ELSE /\ db' = [db EXCEPT !.banned_users = unban_user(@, Strip(m.target))]
          /\ Finish(Handler, <<"Unbanned", Strip(m.target)>>)
  /\ emit' = NoEmit
  /\ UNCHANGED <<self, questions, world, revealed>>
  /\ Sched(Handler)

join_443(m) ==
  /\ Accept(m, "join")
  /\ IF self.session_id = None
     THEN Finish(Handler, <<"NoGameInProgress">>)
     ELSE Next_(Handler, "jn447")
  /\ emit' = NoEmit
  /\ UNCHANGED <<self, questions, world, db, revealed>>
  /\ Sched(Handler)

PlayerRow(sid, user, username) == [session_id |-> sid, user_id |-> user, username |-> username]

\* the INSERT without the UNIQUE(session_id, user_id) constraint
add_player_to_session_no_unique(players, sid, user, username) ==
  Append(players, PlayerRow(sid, user, username))

add_player_to_session(players, sid, user, username) ==
  IF PlayerConflict(players, sid, user) THEN players
  ELSE Append(players, PlayerRow(sid, user, username))

join_447 ==
  /\ At(Handler, "jn447")
  /\ db' = [db EXCEPT !.hj_session_players =
              add_player_to_session(@, self.session_id, msg.from, msg.name)]
  /\ thr' = [thr EXCEPT ![Handler].pc = "jn451",
                        ![Handler].added =
                           ~PlayerConflict(db.hj_session_players, self.session_id, msg.from)]
  /\ emit' = NoEmit
  /\ UNCHANGED <<self, questions, world, timers, msg, reply, revealed>>
  /\ Sched(Handler)

\* lines 448-451 and 462-465: the test for the question DM, and the reply when
\* none is sent
join_451 ==
  /\ At(Handler, "jn451")
  /\ IF /\ thr[Handler].added
        /\ self.current_question # NoneStr
        /\ self.state = STATE_COLLECTING_ANSWERS
     THEN Next_(Handler, "jn455")
     ELSE IF thr[Handler].added
          THEN Finish(Handler, <<"YoureIn",
                       Len(get_session_players(db.hj_session_players, self.session_id))>>)
          ELSE Finish(Handler, <<"AlreadyInTheGame">>)
  /\ emit' = NoEmit
  /\ UNCHANGED <<self, questions, world, db, msg, revealed>>
  /\ Sched(Handler)

\* lines 452-463: the DM is built from the engine's fields as they are now
join_455 ==
  /\ At(Handler, "jn455")
  /\ emit' \in SendDm(msg.from,
                       RoundNum(get_hj_session_info(db.hj_sessions, self.session_id)),
                       self.current_question)
  /\ Finish(Handler, <<"YoureIn",
               Len(get_session_players(db.hj_session_players, self.session_id))>>)
  /\ UNCHANGED <<self, questions, world, db, msg, revealed>>
  /\ Sched(Handler)

get_status(s, d) ==
  IF s.state = STATE_IDLE THEN <<"NoGameInProgress">>
  ELSE IF get_hj_session_info(d.hj_sessions, s.session_id) # <<>>
       THEN <<"Status", s.session_id,
              get_hj_session_info(d.hj_sessions, s.session_id)[1].current_round, s.state>>
       ELSE <<"GameInProgress">>

get_scores(s, d) ==
  IF s.session_id = None THEN <<"NoGameInProgress">>
  ELSE IF get_hj_session_leaderboard(d.hj_session_answers, s.session_id) = {}
       THEN <<"NoScoresYet">>
       ELSE <<"Leaderboard", get_hj_session_leaderboard(d.hj_session_answers, s.session_id)>>

read_only(m) ==
  /\ thr[Handler].pc = "idle" /\ m.cmd \in {"help", "status", "scores"} /\ msg' = m
  /\ Finish(Handler, CASE m.cmd = "help" -> <<"Help">>
                       [] m.cmd = "status" -> get_status(self, db)
                       [] OTHER -> get_scores(self, db))
  /\ emit' = NoEmit
  /\ UNCHANGED <<self, questions, world, db, revealed>>
  /\ Sched(Handler)

\* ------------------------------------------------------ inbound messages
BanTargets == {P1}

Msg(cmd, from, target, text) ==
  [cmd |-> cmd, from |-> from, name |-> NameOf(from), target |-> target, text |-> text]

\* the player P1 under the display name the node has after it was renamed
Renamed(m) == [m EXCEPT !.name = "patty"]

ScoresMessages ==
  {Msg(c, Admin, <<>>, <<>>) : c \in {"start", "stop", "next"}}
  \cup {Msg("text", P1, <<>>, TwentyTwo), Renamed(Msg("text", P1, <<>>, PaddedTwentyTwo))}
  \cup {Msg("scores", P1, <<>>, <<>>)}

\* two players who answer, one of them joining the game
RosterMessages ==
  {Msg(c, Admin, <<>>, <<>>) : c \in {"start", "stop"}}
  \cup {Msg("join", P1, <<>>, <<>>)}
  \cup {Msg("text", u, <<>>, <<" ", "A">>) : u \in {P1, P2}}

\* the admin's commands sent by the admin and by a player who is no admin
DeniedMessages ==
  {Msg(c, u, <<>>, <<>>) : c \in {"start", "stop", "next"}, u \in {Admin, P1}}
  \cup {Msg(c, P1, x, <<>>) : c \in {"ban", "unban"}, x \in BanTargets}

\* the admin's start and a player's answer
LiveMessages == {Msg("start", Admin, <<>>, <<>>), Msg("text", P1, <<>>, <<" ", "A">>)}

\* a text with the leading marker that is no command
UnknownCommand == <<"!", "x">>

\* two players who join, one of them answering, and the questions anybody may ask
LobbyMessages ==
  {Msg(c, Admin, <<>>, <<>>) : c \in {"start", "stop"}}
  \cup {Msg("join", u, <<>>, <<>>) : u \in {P1, P2}}
  \cup {Msg(c, P1, <<>>, <<>>) : c \in {"help", "status", "scores"}}
  \cup {Msg("status", Admin, <<>>, <<>>), Msg("text", P1, <<>>, UnknownCommand)}
  \cup {Msg("text", P1, <<>>, <<" ", "A">>)}

\* the admin banning and unbanning two players, one of them answering
BansMessages ==
  {Msg(c, Admin, <<>>, <<>>) : c \in {"start", "stop", "next"}}
  \cup {Msg(c, Admin, x, <<>>) : c \in {"ban", "unban"}, x \in {P1, P2}}
  \cup {Msg("text", P1, <<>>, <<" ", "A">>)}

Messages(w) ==
  IF w \in {"restart", "skip", "outage"}
  THEN {Msg(c, Admin, <<>>, <<>>) : c \in {"start", "stop", "next"}}
  ELSE IF w = "scores" THEN ScoresMessages
  ELSE IF w = "roster" THEN RosterMessages
  ELSE IF w = "denied" THEN DeniedMessages
  ELSE IF w = "live" THEN LiveMessages
  ELSE IF w = "lobby" THEN LobbyMessages
  ELSE IF w = "bans" THEN BansMessages
  ELSE {Msg(c, Admin, <<>>, <<>>) : c \in {"start", "stop", "next"}}
       \cup {Msg("start", P1, <<>>, <<>>)}
       \cup {Msg(c, Admin, x, <<>>) : c \in {"ban", "unban"}, x \in BanTargets}
       \cup {Msg("text", P1, <<>>, x) : x \in AnswerTexts}

\* a step of start_game on the receive thread, or the end of a handling
HandlerStep ==
  \/ start_game_207 \/ start_game_208 \/ start_game_209 \/ start_game_221
  \/ start_game_263 \/ start_game_265
  \/ Done

\* timer i fires, or its thread takes a step of post_question (the loop over
\* the roster, line 323, is a step of the worlds that have a roster)
TimerStep(i) ==
       \/ Fire(i)
       \/ stop_game_call(i)
       \/ post_question_270(i) \/ post_question_275(i) \/ post_question_280(i)
       \/ post_question_281(i) \/ post_question_282(i) \/ post_question_283(i)
       \/ post_question_287(i) \/ post_question_289(i) \/ post_question_295(i)
       \/ post_question_298(i) \/ post_question_299(i) \/ post_question_300(i)
       \/ post_question_301(i) \/ post_question_305(i) \/ post_question_311(i)
       \/ post_question_321(i) \/ post_question_330(i)
       \/ post_question_335(i) \/ post_question_337(i)

\* thread t takes a step of stop_game or of close_question
SharedStep(t) ==
       \/ stop_game_237(t) \/ stop_game_239(t) \/ stop_game_243(t) \/ stop_game_247(t)
       \/ stop_game_250(t) \/ stop_game_251(t) \/ stop_game_252(t)
       \/ close_question_342(t) \/ close_question_347(t) \/ close_question_351(t)
       \/ close_question_352(t) \/ close_question_353(t) \/ close_question_354(t)
       \/ close_question_355(t) \/ close_question_263(t) \/ close_question_265(t)

Steps ==
  \/ HandlerStep
  \/ \E i \in TimerIds : TimerStep(i)
  \/ \E t \in Threads : SharedStep(t)

\* the game's life cycle: start, stop, next and the two timer callbacks
Lifecycle ==
  \/ \E m \in Messages(world) :
       start_game_196(m) \/ stop_game_recv(m) \/ next_420(m)
  \/ Steps

\* a step of process_answer after its first
AnswerStep ==
  \/ process_answer_372 \/ process_answer_373 \/ process_answer_379
  \/ process_answer_385
  \/ process_answer_386 \/ process_answer_389 \/ process_answer_398

\* the players' answers and the admin's bans
Answers ==
  \/ \E m \in Messages(world) :
       process_answer_368(m) \/ ban_428(m) \/ unban_435(m)
  \/ AnswerStep
  \/ Tick

Next == Lifecycle \/ Answers

Spec == Init("play") /\ [][Next]_vars

NextRestart == Lifecycle

SpecRestart == Init("restart") /\ [][NextRestart]_vars

\* a game of two rounds, a player answering and asking for the scores
NextScores ==
  \/ Lifecycle
  \/ \E m \in Messages(world) : process_answer_368(m) \/ read_only(m)
  \/ AnswerStep
  \/ Tick

SpecScores == Init("scores") /\ [][NextScores]_vars

\* one game, its routines never interleaved, every broadcast free to fail
SpecOutage == Init("outage") /\ [][NextRestart]_vars

\* one game, the admin banning and unbanning, a player answering
SpecBans == Init("bans") /\ [][Next]_vars

\* one game, two players joining and answering it
NextRoster ==
  \/ \E m \in Messages(world) :
       start_game_196(m) \/ stop_game_recv(m) \/ process_answer_368(m) \/ join_443(m)
  \/ Steps
  \/ AnswerStep
  \/ join_447 \/ join_451 \/ join_455
  \/ \E i \in TimerIds : post_question_325(i)
  \/ Tick

SpecRoster == Init("roster") /\ [][NextRoster]_vars

\* one game and a player who sends the admin's commands
NextDenied ==
  \/ Lifecycle
  \/ \E m \in Messages(world) : ban_428(m) \/ unban_435(m)

SpecDenied == Init("denied") /\ [][NextDenied]_vars

\* one game, two players joining, direct messages that may fail, and the
\* read-only commands
NextLobby ==
  \/ \E m \in Messages(world) :
       \/ start_game_196(m) \/ stop_game_recv(m) \/ join_443(m)
       \/ read_only(m) \/ unknown_481(m) \/ process_answer_368(m)
  \/ Steps
  \/ AnswerStep
  \/ join_447 \/ join_451 \/ join_455
  \/ \E i \in TimerIds : post_question_325(i)

SpecLobby == Init("lobby") /\ [][NextLobby]_vars

\* one game left to its timers: no admin command after the start, a player
\* answering.  A timer that is armed fires and a thread that is in a routine
\* goes on: the timer threads are scheduled again and again (strongly fair,
\* since a thread of the model waits while another one is inside a routine
\* and may not be preempted any more), the receive thread finishes what it
\* handles.  The player stops sending once MaxAnswers answers are recorded,
\* so that no answer waits for room in the table.
NextLive ==
  \/ \E m \in Messages(world) :
       \/ start_game_196(m)
       \/ BagCardinality(db.hj_session_answers) < MaxAnswers /\ process_answer_368(m)
  \/ Steps
  \/ AnswerStep
  \/ Tick

TimerRuns == \E i \in TimerIds : TimerStep(i) \/ SharedStep(i)

HandlerRuns == HandlerStep \/ SharedStep(Handler) \/ AnswerStep

SpecLive ==
  Init("live") /\ [][NextLive]_vars /\ SF_vars(TimerRuns) /\ WF_vars(HandlerRuns)

\* one game of two rounds with the admin's start, next and stop, under the
\* scheduling of SpecLive; the transport delivers every broadcast
SpecSkip ==
  Init("skip") /\ [][NextRestart]_vars /\ SF_vars(TimerRuns) /\ WF_vars(HandlerRuns)

\* ------------------------------------------------------- the admin check
\* The engine is constructed with a list of admin ids handed over (empty for
\* None) and a value of HJ_ADMIN_NODE_IDS in the environment, and is_admin is
\* called with an id as it is and with a '!' put before it.
HandedLists == { <<>>, << <<"a">> >>, << <<"!", "a">> >>, << <<"b">>, <<"a">> >> }
EnvLists == { <<>>, <<"!", "a">>, <<"a", ",", "!", "b">>, <<" ", "a", " ", ",", ",", " ">>, <<"!">> }
CallerIds == { <<>>, <<"!">>, <<"a">>, <<"!", "a">>, <<"!", "!", "a">>, <<"b">>, <<"!", "b">>, <<"c">> }

InitAdmin ==
  \E h \in HandedLists, e \in EnvLists, c \in CallerIds :
    Constructed("admin", admin_node_ids_79(h, HJ_ADMIN_NODE_IDS(e)), <<>>,
                [cmd |-> "is_admin", from |-> c, handed |-> h, env |-> e])

is_admin_165 ==
  /\ At(Handler, "idle") /\ msg.cmd = "is_admin"
  /\ Finish(Handler, <<is_admin(msg.from), is_admin(<<"!">> \o msg.from)>>)
  /\ emit' = NoEmit
  /\ UNCHANGED <<self, questions, world, db, msg, revealed>>
  /\ Sched(Handler)

SpecAdmin == InitAdmin /\ [][is_admin_165]_vars


\* -------------------------------------------------------- load_questions
\* A questions file is a sequence of lines, a line a sequence of characters.
StartsWith(s, p) == Len(s) >= Len(p) /\ SubSeq(s, 1, Len(p)) = p

\* str.split(sep, 1)
SplitOnce(s, sep) == IF Len(Split(s, sep)) = 1 THEN <<s>>
                     ELSE <<Split(s, sep)[1],
                            SubSeq(s, Len(Split(s, sep)[1]) + 2, Len(s))>>

\* str.isdigit() and int() on the decimal digits
IsDigit(s) == s # <<>> /\ \A i \in DOMAIN s : s[i] \in {"0", "1", "2"}

RECURSIVE ParseInt(_)
ParseInt(s) ==
  IF s = <<>> THEN 0
  ELSE 10 * ParseInt(SubSeq(s, 1, Len(s) - 1))
       + (CASE s[Len(s)] = "0" -> 0 [] s[Len(s)] = "1" -> 1 [] s[Len(s)] = "2" -> 2)

\* lines 134-135 and 152-153: the block read so far is kept when it has a
\* question text and an answer
SaveQuestion(acc) ==
  IF acc.current_q # <<>> /\ acc.current_answers # <<>>
  THEN Append(acc.questions, [text |-> acc.current_q,
                              answers |-> acc.current_answers,
                              points |-> acc.current_points])
  ELSE acc.questions

\* lines 128-149: one turn of the loop over the lines (current_q is <<>> for
\* None as for the empty text: both count as false)
ReadLine(acc, raw) ==
  LET line == Strip(raw)
      rest == SubSeq(line, 3, Len(line))
      parts == SplitOnce(rest, ":")
  IN IF line = <<>> THEN acc
     ELSE IF StartsWith(line, <<"Q", ":">>)
     THEN IF Len(parts) = 2 /\ IsDigit(Strip(parts[1]))
          THEN [current_q |-> Strip(parts[2]), current_points |-> ParseInt(Strip(parts[1])),
                current_answers |-> <<>>, questions |-> SaveQuestion(acc)]
          ELSE [current_q |-> Strip(rest), current_points |-> 100,
                current_answers |-> <<>>, questions |-> SaveQuestion(acc)]
     ELSE IF StartsWith(line, <<"A", ":">>)
     THEN [acc EXCEPT !.current_answers = Append(@, Lower(Strip(rest)))]
     ELSE acc

RECURSIVE ReadLines(_, _)
ReadLines(acc, file) ==
  IF file = <<>> THEN acc ELSE ReadLines(ReadLine(acc, Head(file)), Tail(file))

\* load_questions on a file that exists
load_questions(file) ==
  SaveQuestion(ReadLines([current_q |-> <<>>, current_points |-> 100,
                          current_answers |-> <<>>, questions |-> <<>>], file))

\* the lines a file is made of, and the files of up to MaxLines lines
MaxLines == 3
FileLines ==
  { <<"Q", ":", "2", ":", " ", "x">>, <<"Q", ":", " ", "x">>, <<"Q", ":", "0", ":", "x">>,
    <<"Q", ":", "1", ":">>, <<" ", "A", ":", " ", "A", " ">>, <<"A", ":", "b">>,
    <<"A", ":">>, <<>>, <<"x">> }
Files == UNION { [1..n -> FileLines] : n \in 0..MaxLines }

InitLoad ==
  \E f \in Files :
    Constructed("load", admin_node_ids, <<>>, [cmd |-> "load_questions", file |-> f])

\* line 93: self.questions = self.load_questions(self.questions_file)
load_questions_93 ==
  /\ At(Handler, "idle") /\ msg.cmd = "load_questions"
  /\ questions' = load_questions(msg.file)
  /\ Finish(Handler, <<"none">>)
  /\ emit' = NoEmit
  /\ UNCHANGED <<self, world, db, msg, revealed>>
  /\ Sched(Handler)

SpecLoad == InitLoad /\ [][load_questions_93]_vars


\* ------------------------------------------------------- outbound texts
\* A text is a sequence of characters; where only its length and the order
\* of its characters matter it is the sequence 1, 2, ..., n.  An emoji of the
\* source counts as one character, as it does for Python's len, and is
\* written '*' here.
MaxText == 404
Numbered(n) == [i \in 1..n |-> i]

\* bot.py lines 176 and 178: the size limit and the slices of a response
ChunkSize == 200
Chunk(response, k) ==
  SubSeq(response, k * ChunkSize + 1,
         IF (k + 1) * ChunkSize < Len(response) THEN (k + 1) * ChunkSize ELSE Len(response))
LastChunk(response, k) == (k + 1) * ChunkSize >= Len(response)

\* start_game lines 212-219: the announcement of a new game
Intro(max_rounds) ==
  "* HACKER JEOPARDY - GAME ON!\n\nSend !join to play! You can join anytime.\n"
  \o "Questions posted here + DM'd to players.\nDM your answers back to me.\n\n"
  \o "Correct = +points | Wrong = -points\n"
  \o ToString(max_rounds) \o " rounds total. Good luck! *"

\* what is handed to the bot or to the engine for sending: a command's reply
\* (bot.py), a channel broadcast (post_to_channel), a question for one
\* player (post_question, join)
Sendings ==
  [cmd : {"reply", "post_to_channel", "dm"},
   text : {Numbered(n) : n \in {0, 1} \cup ((ChunkSize - 4)..(ChunkSize + 4))
                                \cup ((2 * ChunkSize - 4)..MaxText)}]
  \cup {[cmd |-> "post_to_channel", text |-> Intro(r)] : r \in {HJ_MAX_ROUNDS, 10}}

InitSend == \E c \in Sendings : Constructed("send", admin_node_ids, <<>>, c)

\* bot.py lines 171-183: nothing is sent for an empty response, a response
\* of up to 200 characters is sent as it is, a longer one slice by slice
on_receive_171 ==
  /\ At(Handler, "idle") /\ msg.cmd = "reply"
  /\ IF Len(msg.text) = 0
     THEN Finish(Handler, <<>>) /\ emit' = NoEmit
     ELSE IF Len(msg.text) > ChunkSize
     THEN Next_(Handler, "or180") /\ emit' = NoEmit
     ELSE Finish(Handler, <<msg.text>>) /\ emit' = <<"send_text", msg.text>>
  /\ UNCHANGED <<self, questions, world, db, msg, revealed>>
  /\ Sched(Handler)

\* bot.py lines 179-181: one turn of the loop over the slices; reply keeps
\* what was sent so far
on_receive_180 ==
  /\ At(Handler, "or180")
  /\ emit' = <<"send_text", Chunk(msg.text, thr[Handler].dm_i)>>
  /\ reply' = Append(IF thr[Handler].dm_i = 0 THEN <<>> ELSE reply, emit'[2])
  /\ thr' = [thr EXCEPT ![Handler] =
               IF LastChunk(msg.text, thr[Handler].dm_i)
               THEN [IdleThr EXCEPT !.pc = "done"]
               ELSE [@ EXCEPT !.dm_i = @ + 1]]
  /\ UNCHANGED <<self, questions, world, db, msg, revealed, timers>>
  /\ Sched(Handler)

\* post_to_channel line 191, and the sends of lines 325 and 457: the text is
\* handed to send_text as it is
post_to_channel_191 ==
  /\ At(Handler, "idle") /\ msg.cmd \in {"post_to_channel", "dm"}
  /\ emit' = <<"send_text", msg.text>>
  /\ Finish(Handler, <<msg.text>>)
  /\ UNCHANGED <<self, questions, world, db, msg, revealed>>
  /\ Sched(Handler)

SpecSend == InitSend /\ [][on_receive_171 \/ on_receive_180 \/ post_to_channel_191]_vars


\* ----------------------------------------------------- generate_game_intro
\* The engine's llm is None (<<>>) or a service that is available or not and
\* whose API call, when chat makes it, returns a text, returns no content
\* (None) or raises.
MaxIntro == 224
Contents == {<<"raise">>, <<"none">>} \cup {<<"text", Numbered(n)>> : n \in 0..MaxIntro}
LLMs == {<<>>} \cup {<<a, c>> : a \in BOOLEAN, c \in Contents}

\* LLMService.chat (llm.py 77-98): a message instead of the answer when the
\* service is not available or the call raises; chat itself raises nothing
chat(llm) ==
  IF ~llm[1] THEN <<"text", "LLM service not available">>
  ELSE IF llm[2] = <<"raise">> THEN <<"text", "LLM error">>
  ELSE llm[2]

\* reading a field __init__ never assigned raises AttributeError
HasAttr(s, name) == name \in DOMAIN s

\* generate_game_intro (lines 548-581); the static texts are kept by the
\* numbers put into them
generate_game_intro(s, llm) ==
  IF llm = <<>> \/ ~llm[1]
  THEN IF ~HasAttr(s, "question_interval") THEN <<"raise", "AttributeError">>
       ELSE <<"return", <<"GAME ON", s.question_interval \div 60, "Let's go">>>>
  ELSE IF ~HasAttr(s, "question_interval") THEN <<"raise", "AttributeError">>
  ELSE IF chat(llm) = <<"none">>
  THEN <<"return", <<"GAME ON", s.question_interval \div 60, "Let's hack">>>>
  ELSE IF Len(chat(llm)[2]) > 220
  THEN <<"return", <<"*", " ">> \o SubSeq(chat(llm)[2], 1, 217) \o <<".", ".", ".">>>>
  ELSE <<"return", <<"*", " ">> \o chat(llm)[2]>>

InitIntro ==
  \E l \in LLMs :
    Constructed("intro", admin_node_ids, <<>>, [cmd |-> "generate_game_intro", llm |-> l])

generate_game_intro_548 ==
  /\ At(Handler, "idle") /\ msg.cmd = "generate_game_intro"
  /\ Finish(Handler, generate_game_intro(self, msg.llm))
  /\ emit' = NoEmit
  /\ UNCHANGED <<self, questions, world, db, msg, revealed>>
  /\ Sched(Handler)

SpecIntro == InitIntro /\ [][generate_game_intro_548]_vars

\* ================================================================ claims
\* rows of hj_session_answers, copies counted, for one (session, question, player)
AnswersFor(sid, qid, node) ==
  LET rows == {r \in BagToSet(db.hj_session_answers) :
                 r.session_id = sid /\ r.question_id = qid /\ r.node_id = node}
  IN SumCopies(db.hj_session_answers, rows)

\* C1: in every reachable state the answer store holds at most one answer per
\* (session, posted question, player): no player has two recorded answers to
\* the same posted question.
C1_OneAnswerPerTriple ==
  \A r \in BagToSet(db.hj_session_answers) :
     r.question_id \in DOMAIN db.hj_session_questions =>
        AnswersFor(r.session_id, r.question_id, r.node_id) <= 1

\* the step hands the receive thread a new message
Receives(cmd) == thr[Handler].pc = "idle" /\ thr'[Handler].pc # "idle" /\ msg'.cmd = cmd

\* thread t executes statement l
Executes(t, l) == thr[t].pc = l /\ thr'[t].pc # l

\* C2: an answer whose lateness test runs when now >= closes_at is rejected as
\* too late (and so goes no further towards the store), the instant
\* now = closes_at included.
C2_AtOrAfterCloseRejected ==
  [][ ( /\ Executes(Handler, "pa379")
        /\ self.question_closes_at # <<>>
        /\ self.question_closes_at[1] <= 0 )
      => ( /\ reply' = <<"TooLate">>
           /\ thr'[Handler].pc = "done"
           /\ db' = db ) ]_vars

\* C3: a free text from a sender who is on the ban list is answered with the
\* ban notice by the first statement of its handling, whatever the engine's
\* state, the clock and the text are; nothing is written.
C3_BannedRejected ==
  [][ ( /\ Receives("text")
        /\ ~StartsWithBang(msg'.text)
        /\ BagIn(msg'.from, db.banned_users) )
      => ( /\ reply' = <<"Banned">>
           /\ thr'[Handler].pc = "done"
           /\ db' = db
           /\ self' = self ) ]_vars

\* a banned player has just been refused a correct answer sent in time
C3_Witness ==
  /\ thr[Handler].pc = "done"
  /\ msg.cmd = "text"
  /\ BagIn(msg.from, db.banned_users)
  /\ reply = <<"Banned">>
  /\ self.state = STATE_COLLECTING_ANSWERS
  /\ IsCorrect(msg.text, self.current_answers)
  /\ self.question_closes_at # <<>> /\ self.question_closes_at[1] > 0
  /\ db.hj_session_answers = EmptyBag

\* C4: no session's current_round exceeds its max_rounds.
C4_RoundWithinMax ==
  \A i \in DOMAIN db.hj_sessions :
     db.hj_sessions[i].current_round <= db.hj_sessions[i].max_rounds

PostTimersArmed == {i \in TimerIds : timers[i].kind = "post" /\ timers[i].st = "armed"}

\* C5: the answer of a posted question is broadcast at most once, and at most
\* one next-question timer is armed at a time, however the close timer's
\* callback and the handling of `next` or `stop` interleave.
C5_ClosedOnce ==
  /\ [](Cardinality(PostTimersArmed) <= 1)
  /\ [][ (emit' # NoEmit /\ emit'[1] = "reveal")
          => self.current_question_db_id \notin revealed ]_vars

\* C6: a close_question that runs from COLLECTING_ANSWERS with nothing else
\* happening leaves the state ACTIVE and the current-question fields cleared
\* before it arms the next-question timer, and a close_question invoked in
\* that state (any state but COLLECTING_ANSWERS) returns at once: it
\* broadcasts nothing, changes no field, no table, and arms no timer.
C6_SecondCloseNoOp ==
  /\ [](\A t \in Threads :
          (sched.preempt = 0 /\ thr[t].pc \in {"cq263", "cq265"})
          => ( /\ self.state = STATE_ACTIVE
               /\ self.current_question = NoneStr
               /\ self.current_answers = <<>>
               /\ self.current_point_value = 0
               /\ self.current_question_db_id = None ))
  /\ [][ \A t \in Threads :
          (Executes(t, "cq342") /\ self.state # STATE_COLLECTING_ANSWERS)
          => ( /\ thr'[t].pc \in {"idle", "done"}
               /\ emit' = NoEmit
               /\ self' = self
               /\ db' = db
               /\ revealed' = revealed
               /\ timers' = ThreadEnds(timers, t) ) ]_vars

\* the close timer closed the question by itself, then `next` invoked
\* close_question again: one reveal, one next-question timer, the state as the
\* first invocation left it
C6_Witness ==
  /\ thr[Handler].pc = "done"
  /\ msg.cmd = "next"
  /\ reply = <<"QuestionSkipped">>
  /\ sched.preempt = 0
  /\ self.state = STATE_ACTIVE
  /\ self.current_answers = <<>>
  /\ revealed = {1}
  /\ Cardinality(PostTimersArmed) = 1

\* a stop was carried out and no start was accepted since
Stopped ==
  /\ self.state = STATE_IDLE
  /\ self.session_id = None
  /\ db.hj_sessions # <<>>
  /\ db.hj_sessions[Len(db.hj_sessions)].status = "ENDED"

\* C7: from a stop until the next accepted start the state stays IDLE and no
\* question is announced and no answer revealed, also by a timer callback that
\* was armed, or already executing, when the stop came.
C7_StoppedStaysIdle ==
  [][ Stopped => ( /\ self'.state = STATE_IDLE
                   /\ emit' = NoEmit \/ emit'[1] \notin {"announce", "dm", "reveal"} ) ]_vars

ActiveSessions == {i \in DOMAIN db.hj_sessions : db.hj_sessions[i].status = "ACTIVE"}

Quiescent == \A t \in Threads : thr[t].pc \in {"idle", "done"}

\* C8: at most one session of the store is ACTIVE, and once the engine is back
\* to IDLE (no routine still executing) none is: the path that took it there
\* ended the session that was running.
C8_SingleActiveSession ==
  /\ Cardinality(ActiveSessions) <= 1
  /\ (Quiescent /\ self.state = STATE_IDLE) => ActiveSessions = {}

\* C9: a start received while the engine is not IDLE is refused, whoever sent
\* it: no session is created, no field and no timer changes, nothing is sent.
C9_StartWhileRunningRejected ==
  [][ (Receives("start") /\ self.state # STATE_IDLE)
      => ( /\ reply' = <<"GameAlreadyInProgress">>
           /\ thr'[Handler].pc = "done"
           /\ db' = db
           /\ self' = self
           /\ timers' = timers
           /\ emit' = NoEmit ) ]_vars

\* a player who is no admin was refused a start while a question was open
C9_Witness ==
  /\ thr[Handler].pc = "done"
  /\ msg.cmd = "start"
  /\ ~is_admin(msg.from)
  /\ reply = <<"GameAlreadyInProgress">>
  /\ self.state = STATE_COLLECTING_ANSWERS
  /\ Len(db.hj_sessions) = 1

\* the bank record a posted question was taken from
BankRecord(row) == CHOOSE i \in DOMAIN questions : questions[i].text = row.question_text

\* C10: every recorded answer is an answer to a posted question and carries
\* +p when its trimmed, lowercased text is one of that question's accepted
\* answers and -p otherwise, p being the question's point value.
C10_PointsAreSignedValue ==
  \A r \in BagToSet(db.hj_session_answers) :
     /\ r.question_id \in DOMAIN db.hj_session_questions
     /\ LET q == questions[BankRecord(db.hj_session_questions[r.question_id])]
        IN r.points_awarded =
             IF Strip(Lower(r.answer_text)) \in SeqToSet(q.answers) THEN q.points ELSE -q.points

\* ---------------------------------------------------------------------
\* the rows a player has in a session, and the player's leaderboard entries
PlayerRows(sid, node) ==
  {r \in SessionRows(db.hj_session_answers, sid) : r.node_id = node}

PlayerEntries(sid, node) ==
  {e \in get_hj_session_leaderboard(db.hj_session_answers, sid) : e.node_id = node}

\* C11: a player with at least one recorded answer in a session has exactly
\* one leaderboard entry in that session, and its total is the sum of
\* points_awarded over all of the player's answers in the session, whatever
\* display names the submissions carried.
C11_OneEntryPerPlayer ==
  \A sid \in DOMAIN db.hj_sessions : \A node \in Senders :
    PlayerRows(sid, node) # {} =>
      /\ Cardinality(PlayerEntries(sid, node)) = 1
      /\ \A e \in PlayerEntries(sid, node) :
            e.total_points = SumPoints(db.hj_session_answers, PlayerRows(sid, node))

\* ---------------------------------------------------------------------
\* the recorded answers that carry the text x
RowsWithText(x) == {r \in BagToSet(db.hj_session_answers) : r.answer_text = x}

OtherAnswerers(qid, node) ==
  {r.node_id : r \in {x \in BagToSet(db.hj_session_answers) :
                        x.question_id = qid /\ x.node_id # node}}

\* C13: when a player's first answer to the open question reaches the store
\* (the ban, state and lateness tests passed) after another player has
\* answered the same question, it is recorded, as one new row for that player
\* and question, and scored on its own: +p when its trimmed, lowercased text
\* is an accepted answer of the question and -p otherwise.
C13_SecondPlayerScored ==
  [][ ( /\ Executes(Handler, "pa389")
        /\ self.current_question_db_id \in DOMAIN db.hj_session_questions
        /\ OtherAnswerers(self.current_question_db_id, msg.from) # {}
        /\ AnswersFor(self.session_id, self.current_question_db_id, msg.from) = 0 )
      => LET q == questions[BankRecord(db.hj_session_questions[self.current_question_db_id])]
             p == IF Strip(Lower(msg.text)) \in SeqToSet(q.answers)
                  THEN q.points ELSE -q.points
         IN db'.hj_session_answers = db.hj_session_answers (+)
              SetToBag({AnswerRow(self.session_id, self.current_question_db_id,
                                  msg.from, msg.name, msg.text, p)}) ]_vars

\* ---------------------------------------------------------------------
\* the roster rows of a user in a session
RosterRows(sid, user) ==
  {i \in DOMAIN db.hj_session_players :
     db.hj_session_players[i].session_id = sid /\ db.hj_session_players[i].user_id = user}

\* C14: a join handled while a session is running adds exactly one roster
\* row for (session, user) when the user has none there, and a later join of
\* the same user in the same session leaves the store unchanged; the reply is
\* 'already in the game' exactly when no row was added.
C14_JoinIdempotent ==
  [][ /\ (Executes(Handler, "jn447") /\ self.session_id # None)
          => IF RosterRows(self.session_id, msg.from) = {}
             THEN /\ db'.hj_session_players =
                       Append(db.hj_session_players,
                              PlayerRow(self.session_id, msg.from, msg.name))
                  /\ thr'[Handler].added
             ELSE /\ db' = db
                  /\ ~thr'[Handler].added
      /\ Executes(Handler, "jn451")
          => /\ db' = db
             /\ (reply' = <<"AlreadyInTheGame">>) <=> ~thr[Handler].added ]_vars

\* a second join of the same player in the running session was answered
C14_Witness ==
  /\ thr[Handler].pc = "done"
  /\ msg.cmd = "join"
  /\ reply = <<"AlreadyInTheGame">>
  /\ self.session_id # None
  /\ Cardinality(RosterRows(self.session_id, msg.from)) = 1

\* ---------------------------------------------------------------------
\* thread t executes the post_final_scores call of stop_game (line 247) or of
\* the max_rounds path of post_question (line 281)
PostsFinalScores(t) == Executes(t, "st247") \/ Executes(t, "pq281")

C16_IdleWithFinalScores ==
  [][ /\ \A t \in Threads :
            ((Executes(t, "st250") \/ Executes(t, "pq282")) /\ self.state # STATE_IDLE)
            => thr[t].final_msg # NoEmit
      /\ (Receives("stop") /\ self.state = STATE_IDLE)
            => ( /\ reply' = <<"NoGameInProgress">>
                 /\ thr'[Handler].pc = "done"
                 /\ self' = self
                 /\ db' = db
                 /\ timers' = timers
                 /\ emit' = NoEmit ) ]_vars

\* ---------------------------------------------------------------------
\* the session has ended: the engine is IDLE, no session of the store is
\* ACTIVE and no session was posted more questions than its max_rounds
GameOver ==
  /\ self.state = STATE_IDLE
  /\ ActiveSessions = {}
  /\ \A sid \in DOMAIN db.hj_sessions :
        Cardinality({i \in DOMAIN db.hj_session_questions :
                       db.hj_session_questions[i].session_id = sid})
          <= db.hj_sessions[sid].max_rounds

C18_ExhaustionEndsGame ==
  [][ \A i \in TimerIds :
        Executes(i, "st252")
        => ( /\ thr[i].final_msg # NoEmit
             /\ self'.state = STATE_IDLE
             /\ ActiveSessions' = {}
             /\ \A j \in TimerIds : timers'[j].st # "armed" ) ]_vars

\* ---------------------------------------------------------------------
\* C19: the questions posted in one session have different bank indices;
\* each post takes an index that is not in used_questions and adds it, and
\* post_question signals exhaustion exactly when used_questions covers the
\* bank; for every bank, also one with two equal records.
C19_NoIndexTwice ==
  /\ [](\A i, j \in DOMAIN db.hj_session_questions :
          (i # j /\ db.hj_session_questions[i].session_id
                      = db.hj_session_questions[j].session_id)
          => db.hj_session_questions[i].question_id
               # db.hj_session_questions[j].question_id)
  /\ [][ \A t \in TimerIds :
          /\ Executes(t, "pq295")
              => ( /\ thr[t].q_idx \notin self.used_questions
                   /\ self'.used_questions = self.used_questions \cup {thr[t].q_idx} )
          /\ Executes(t, "pq287")
              => ( thr'[t].pc = "pq289"
                     <=> DOMAIN questions \subseteq self.used_questions ) ]_vars

\* ---------------------------------------------------------------------
AdminCommands == {"start", "stop", "next", "ban", "unban"}

\* C20: an admin-only command received from a caller who is no admin is
\* answered at once, in every state of the engine, and changes nothing:
\* no field of the engine, no timer, no table of the store (roster and ban
\* list included), and nothing is broadcast.
C20_NonAdminChangesNothing ==
  [][ ( /\ \E c \in AdminCommands : Receives(c)
        /\ ~is_admin(msg'.from) )
      => ( /\ thr'[Handler].pc = "done"
           /\ reply' \in { <<"OnlyAdminsCanStart">>, <<"GameAlreadyInProgress">>,
                            <<"OnlyAdminsCanStop">>, <<"NoGameInProgress">>,
                            <<"OnlyAdminsCanSkip">>, <<"OnlyAdminsCanBan">>,
                            <<"OnlyAdminsCanUnban">> }
           /\ self' = self
           /\ db' = db
           /\ timers' = timers
           /\ revealed' = revealed
           /\ emit' = NoEmit ) ]_vars

\* a player who is no admin was refused a `next` while a question was open
C20_Witness ==
  /\ thr[Handler].pc = "done"
  /\ msg.cmd = "next"
  /\ ~is_admin(msg.from)
  /\ reply = <<"OnlyAdminsCanSkip">>
  /\ self.state = STATE_COLLECTING_ANSWERS
  /\ self.close_timer # None /\ timers[self.close_timer].st = "armed"

\* ---------------------------------------------------------------------
RoleDenied == { <<"OnlyAdminsCanStart">>, <<"OnlyAdminsCanStop">>, <<"OnlyAdminsCanSkip">>,
                <<"OnlyAdminsCanBan">>, <<"OnlyAdminsCanUnban">> }

\* C21: an admin-only command (start, stop, next, ban, unban) received from a
\* caller who is no admin is answered with the role-denied reply ('Only
\* admins can ...'), whatever the state of the engine is.
C21_RoleDeniedAlways ==
  [][ ( /\ \E c \in AdminCommands : Receives(c)
        /\ ~is_admin(msg'.from) )
      => ( /\ thr'[Handler].pc = "done"
           /\ reply' \in RoleDenied ) ]_vars

\* ---------------------------------------------------------------------
\* C22: an admin's `next` handled while no question is open (state IDLE or
\* ACTIVE) changes no field of the engine, no timer and no table, broadcasts
\* nothing, and is not answered with the 'question skipped' confirmation.
C22_NextWithoutQuestion ==
  [][ /\ ( /\ Receives("next")
           /\ is_admin(msg'.from)
           /\ self.state # STATE_COLLECTING_ANSWERS )
         => ( /\ self' = self
              /\ db' = db
              /\ timers' = timers
              /\ emit' = NoEmit )
      /\ ( /\ Executes(Handler, "cq342")
           /\ self.state # STATE_COLLECTING_ANSWERS )
         => ( /\ self' = self
              /\ db' = db
              /\ timers' = timers
              /\ emit' = NoEmit
              /\ reply' # <<"QuestionSkipped">> ) ]_vars

\* ---------------------------------------------------------------------
\* C23: help, status and scores, and a text with the leading '!' that is no
\* command, are answered at once, from anybody and in every state of the
\* engine (the unknown text with the unknown-command notice), and change
\* nothing: no field of the engine, no timer, no table of the store (roster
\* and ban list included), and nothing is sent.
C23_QueriesReadOnly ==
  [][ ( \/ \E c \in {"help", "status", "scores"} : Receives(c)
        \/ Receives("text") /\ StartsWithBang(msg'.text) )
      => ( /\ thr'[Handler].pc = "done"
           /\ reply' \notin { <<"none">>, <<"exception">> }
           /\ msg'.cmd = "text" => reply' = <<"UnknownCommand">>
           /\ self' = self
           /\ db' = db
           /\ timers' = timers
           /\ revealed' = revealed
           /\ emit' = NoEmit ) ]_vars

\* the leaderboard was asked for while a question was open, a player was on
\* the roster and an answer was recorded
C23_Witness ==
  /\ thr[Handler].pc = "done"
  /\ msg.cmd = "scores"
  /\ reply[1] = "Leaderboard"
  /\ self.state = STATE_COLLECTING_ANSWERS
  /\ db.hj_session_players # <<>>
  /\ db.hj_session_answers # EmptyBag

\* ---------------------------------------------------------------------
\* C24: once a routine has taken the engine to IDLE (or none has run yet)
\* the engine's session id is unset, and a join received in IDLE is answered
\* 'no game in progress' and adds no roster row; on every path to IDLE:
\* initial state, admin stop, max_rounds reached, bank exhausted.
C24_IdleHasNoSession ==
  /\ []((Quiescent /\ self.state = STATE_IDLE) => self.session_id = None)
  /\ [][ (Receives("join") /\ self.state = STATE_IDLE)
          => ( /\ reply' = <<"NoGameInProgress">>
               /\ thr'[Handler].pc = "done"
               /\ db' = db ) ]_vars

\* ---------------------------------------------------------------------
\* C25: a free text whose state test (line 372) finds the engine not in
\* COLLECTING_ANSWERS goes no further towards the store: nothing is written,
\* no field changes, and the sender is answered 'no game in progress' when
\* the engine is IDLE and 'no active question' when it is ACTIVE, also just
\* after a question was closed and its answer revealed.
C25_TextOutsideCollecting ==
  [][ /\ ( /\ Executes(Handler, "pa372")
           /\ self.state # STATE_COLLECTING_ANSWERS )
         => ( /\ thr'[Handler].pc = "pa373"
              /\ db' = db
              /\ self' = self )
      /\ Executes(Handler, "pa373")
         => ( /\ thr'[Handler].pc = "done"
              /\ db' = db
              /\ self' = self
              /\ self.state = STATE_IDLE => reply' = <<"NoGameInProgress">>
              /\ self.state = STATE_ACTIVE => reply' = <<"NoActiveQuestion">> ) ]_vars

\* a text sent after the question was closed and its answer revealed was
\* answered 'no active question'; nothing is recorded
C25_Witness ==
  /\ thr[Handler].pc = "done"
  /\ msg.cmd = "text"
  /\ reply = <<"NoActiveQuestion">>
  /\ self.state = STATE_ACTIVE
  /\ revealed # {}
  /\ db.hj_session_answers = EmptyBag

\* ---------------------------------------------------------------------
\* C26: in post_question's loop over the roster every turn sends to the next
\* member of the list and goes on to the one after it, or past the loop,
\* whether the send was delivered or raised; past the loop the state becomes
\* COLLECTING_ANSWERS and the close timer is created and started.
C26_DmFailureIsolated ==
  [][ \A t \in TimerIds :
        /\ (thr[t].pc = "pq325" /\ thr'[t] # thr[t])
           => ( /\ emit'[1] \in {"dm", "dm_failed"}
                /\ emit'[2] = <<thr[t].players[thr[t].dm_i + 1]>>
                /\ thr'[t].dm_i = thr[t].dm_i + 1
                /\ thr'[t].pc = IF thr'[t].dm_i = Len(thr[t].players) THEN "pq330" ELSE "pq325"
                /\ self' = self
                /\ db' = db
                /\ timers' = timers )
        /\ Executes(t, "pq330")
           => ( /\ self'.state = STATE_COLLECTING_ANSWERS
                /\ thr'[t].pc = "pq335" )
        /\ Executes(t, "pq335")
           => ( /\ thr'[t].pc = "pq337"
                /\ timers'[self'.close_timer] = [st |-> "new", kind |-> "close"] )
        /\ (Executes(t, "pq337") /\ timers[self.close_timer].st = "new")
           => timers'[self.close_timer].st = "armed" ]_vars

\* the send to the first of two roster members raised, the second was sent
\* the question, and the round is open with the close timer about to start
C26_Witness ==
  \E t \in TimerIds :
    /\ thr[t].pc = "pq337"
    /\ thr[t].players = <<P1, P2>>
    /\ thr[t].failed = {P1}
    /\ self.state = STATE_COLLECTING_ANSWERS
    /\ self.close_timer # None /\ timers[self.close_timer].st = "new"

\* ---------------------------------------------------------------------
\* the timers of one purpose that were started and have not fired yet
Pending(kind) == {i \in TimerIds : timers[i].kind = kind /\ timers[i].st = "armed"}

\* C27: at every moment at most one post-next-question timer is pending and
\* at most one close-current-question timer is pending, however start, stop,
\* next and the timer callbacks follow one another and interleave.
C27_OneTimerPerPurpose ==
  /\ Cardinality(Pending("post")) <= 1
  /\ Cardinality(Pending("close")) <= 1

\* ---------------------------------------------------------------------
StateEdges ==
  { <<STATE_IDLE, STATE_ACTIVE>>,
    <<STATE_ACTIVE, STATE_COLLECTING_ANSWERS>>,
    <<STATE_COLLECTING_ANSWERS, STATE_ACTIVE>>,
    <<STATE_ACTIVE, STATE_IDLE>>,
    <<STATE_COLLECTING_ANSWERS, STATE_IDLE>> }

\* C28: every change of the engine's state follows one of the edges IDLE to
\* ACTIVE, ACTIVE to COLLECTING_ANSWERS, COLLECTING_ANSWERS to ACTIVE, and
\* ACTIVE or COLLECTING_ANSWERS to IDLE; in particular the state never goes
\* from IDLE to COLLECTING_ANSWERS, also when a timer callback interleaves
\* with a stop.
C28_StateEdges ==
  [][ self'.state # self.state => <<self.state, self'.state>> \in StateEdges ]_vars

\* ---------------------------------------------------------------------
\* the posted question with store id x is the current question and open
OpenQ(x) == self.state = STATE_COLLECTING_ANSWERS /\ self.current_question_db_id = x

C30_JoinSendsOpenQuestion ==
  [][ /\ ( /\ Executes(Handler, "jn451")
           /\ thr[Handler].added
           /\ self.state = STATE_COLLECTING_ANSWERS )
         => thr'[Handler].pc = "jn455"
      /\ Executes(Handler, "jn455")
         => ( /\ emit'[1] = "dm"
              /\ emit'[2] = <<msg.from>>
              /\ emit'[4] # NoneStr )
      /\ ( /\ Executes(Handler, "jn451")
           /\ (~thr[Handler].added \/ self.state = STATE_ACTIVE) )
         => ( /\ thr'[Handler].pc = "done"
              /\ emit' = NoEmit )
      /\ ( \/ Receives("join")
           \/ \E l \in {"jn447", "jn451", "jn455"} : Executes(Handler, l) )
         => ( /\ self' = self
              /\ timers' = timers ) ]_vars

\* ---------------------------------------------------------------------
\* the entries of the ban list for node x
BanEntries(banned, x) == IF BagIn(x, banned) THEN CopiesIn(x, banned) ELSE 0

\* the step changes nothing of the engine, the timers and the store but, at
\* most, the entries of the ban list for node x
OnlyBanOf(x) ==
  /\ self' = self
  /\ timers' = timers
  /\ db' = [db EXCEPT !.banned_users = db'.banned_users]
  /\ \A y \in Senders \ {x} :
       BanEntries(db'.banned_users, y) = BanEntries(db.banned_users, y)

\* C31: a ban by the admin is carried out in every state of the engine and
\* leaves exactly one entry for its target, banned before or not; an unban
\* leaves none, and changes nothing when the target was not banned; neither
\* changes an engine field, a timer, the roster, the recorded answers or
\* another node's entry; a text of a sender who has no entry (never banned,
\* or banned and then unbanned) passes the ban test and goes on to be judged.
C31_BanListAlgebra ==
  [][ /\ (Receives("ban") /\ is_admin(msg'.from))
         => ( /\ reply' = <<"Banned", msg'.target>>
              /\ BanEntries(db'.banned_users, msg'.target) = 1
              /\ OnlyBanOf(msg'.target) )
      /\ (Receives("unban") /\ is_admin(msg'.from))
         => ( /\ reply' = <<"Unbanned", msg'.target>>
              /\ BanEntries(db'.banned_users, msg'.target) = 0
              /\ OnlyBanOf(msg'.target)
              /\ BanEntries(db.banned_users, msg'.target) = 0 => db' = db )
      /\ ( /\ Receives("text")
           /\ ~StartsWithBang(msg'.text)
           /\ BanEntries(db.banned_users, msg'.from) = 0 )
         => thr'[Handler].pc = "pa372" ]_vars

\* the admin's ban of a player was handled while a question was open and a
\* timer thread was inside close_question; another player is banned as well,
\* and each of the two has one entry
C31_Witness ==
  /\ thr[Handler].pc = "done"
  /\ msg.cmd = "ban" /\ msg.target = P1
  /\ reply = <<"Banned", P1>>
  /\ BanEntries(db.banned_users, P1) = 1
  /\ BanEntries(db.banned_users, P2) = 1
  /\ self.state = STATE_COLLECTING_ANSWERS
  /\ \E t \in TimerIds : thr[t].pc = "cq351"

\* ---------------------------------------------------------------------
\* the number of '!' an id begins with, and the id without them
LeadingBangs(id) == Cardinality({i \in DOMAIN id : \A j \in 1..i : id[j] = "!"})

CleanedId(id) == SubSeq(id, LeadingBangs(id) + 1, Len(id))

\* C32: is_admin answers that the caller is an admin exactly when the
\* caller's id without its leading '!' characters is an entry of the admin
\* list the engine was constructed with, and it answers the same for the id
\* with one more '!' before it.
C32_AdminIffCleanedMember ==
  (msg.cmd = "is_admin" /\ thr[Handler].pc = "done")
    => /\ reply[1] = (\E i \in DOMAIN self.admin_node_ids :
                         self.admin_node_ids[i] = CleanedId(msg.from))
       /\ reply[2] = reply[1]

\* the admin list comes from the environment, cleaned of the blanks and the
\* '!' it had there, and the caller is an admin under an id with two '!'
C32_Witness ==
  /\ msg.cmd = "is_admin" /\ thr[Handler].pc = "done"
  /\ msg.handed = <<>> /\ msg.env = <<"a", ",", "!", "b">>
  /\ self.admin_node_ids = << <<"a">>, <<"b">> >>
  /\ msg.from = <<"!", "!", "a">>
  /\ reply = <<TRUE, TRUE>>

\* ---------------------------------------------------------------------
\* C33: every record load_questions returns has at least one accepted
\* answer, every accepted answer without blanks around it and without an
\* uppercase letter, and a point value greater than 0.
C33_RecordsWellFormed ==
  (msg.cmd = "load_questions" /\ thr[Handler].pc = "done")
    => \A i \in DOMAIN questions :
         /\ questions[i].answers # <<>>
         /\ \A j \in DOMAIN questions[i].answers :
              /\ Strip(questions[i].answers[j]) = questions[i].answers[j]
              /\ Lower(questions[i].answers[j]) = questions[i].answers[j]
         /\ questions[i].points > 0

\* ---------------------------------------------------------------------
RECURSIVE Concat(_)
Concat(ss) == IF ss = <<>> THEN <<>> ELSE Head(ss) \o Concat(Tail(ss))

\* C34: every text handed to send_text has at most 200 characters, and when
\* the sending of a text is over the texts handed to send_text for it are,
\* in their order, the original text.
C34_SentTextsWithinLimit ==
  /\ emit # NoEmit => Len(emit[2]) <= 200
  /\ (thr[Handler].pc = "done" /\ msg.cmd \in {"reply", "post_to_channel", "dm"})
       => (Len(msg.text) > 0 => Concat(reply) = msg.text)

\* ---------------------------------------------------------------------
\* C35: generate_game_intro returns a text and raises nothing: a static
\* text when there is no LLM service, when the service is not available and
\* when the chat call failed, and otherwise the generated text, cut to at
\* most 220 characters, after the two characters of the prefix.
C35_IntroNeverRaises ==
  (msg.cmd = "generate_game_intro" /\ thr[Handler].pc = "done")
    => /\ reply[1] = "return"
       /\ (msg.llm = <<>> \/ ~msg.llm[1] \/ msg.llm[2] \in {<<"raise">>, <<"none">>})
            => reply[2][1] = "GAME ON"
       /\ (msg.llm # <<>> /\ msg.llm[1] /\ msg.llm[2][1] = "text")
            => /\ Len(reply[2]) <= 220 + 2
               /\ SubSeq(reply[2], 1, 2) = <<"*", " ">>

\* ---------------------------------------------------------------------
\* C36: every recorded answer names a posted question (its question id is
\* not NULL), that question was posted in the session the answer is recorded
\* under, and the points of the answer are +p or -p, p being the point value
\* the question was posted with.
C36_AnswerNamesItsQuestion ==
  \A r \in BagToSet(db.hj_session_answers) :
     /\ r.question_id # None
     /\ r.question_id \in DOMAIN db.hj_session_questions
     /\ r.session_id # None
     /\ db.hj_session_questions[r.question_id].session_id = r.session_id
     /\ r.points_awarded \in {db.hj_session_questions[r.question_id].point_value,
                              -db.hj_session_questions[r.question_id].point_value}

\* ---------------------------------------------------------------------
\* C37: whenever no thread is inside a routine, a post-next-question timer
\* is pending in state ACTIVE, a close timer is pending in state
\* COLLECTING_ANSWERS, and no timer is pending in state IDLE.
C37_NoWedgedSession ==
  Quiescent =>
    /\ self.state = STATE_ACTIVE => Pending("post") # {}
    /\ self.state = STATE_COLLECTING_ANSWERS => Pending("close") # {}
    /\ self.state = STATE_IDLE => Pending("post") \cup Pending("close") = {}

\* C38: a posting step of post_question (the assignments of the current
\* question, its accepted answers, its point value and its store id, lines
\* 298-308) is never taken while a question is open, so none of the four
\* fields of an open question is replaced before the question is closed
PostingStep(t) ==
  \/ Executes(t, "pq298") \/ Executes(t, "pq299")
  \/ Executes(t, "pq300") \/ Executes(t, "pq305")

C38_NoPostWhileOpen ==
  [][\A t \in Threads :
       PostingStep(t) => self.state # STATE_COLLECTING_ANSWERS]_vars

\* ---------------------------------------------------------------------
\* C39: in every state the round counter of each session of the store equals
\* the number of question rows stored for that session, and the round number
\* an announcement shows is the rank of the announced question among the
\* questions of the session it was recorded in (1 for the first, one more
\* for each further question)
PostedIn(sid, upto) ==
  Cardinality({i \in 1..upto : db.hj_session_questions[i].session_id = sid})

\* the row post_question recorded last for bank index q_idx
LastRowOf(q_idx) ==
  CHOOSE i \in DOMAIN db.hj_session_questions :
    /\ db.hj_session_questions[i].question_id[2] = q_idx
    /\ \A j \in DOMAIN db.hj_session_questions :
         db.hj_session_questions[j].question_id[2] = q_idx => j <= i

C39_RoundCountsQuestions ==
  /\ [](\A sid \in DOMAIN db.hj_sessions :
          db.hj_sessions[sid].current_round
            = PostedIn(sid, Len(db.hj_session_questions)))
  /\ [][\A t \in Threads :
          (Executes(t, "pq311") /\ emit'[1] = "announce") =>
            LET k == LastRowOf(thr[t].q_idx)
            IN emit'[2] = PostedIn(db.hj_session_questions[k].session_id, k)]_vars

\* ---------------------------------------------------------------------
\* C40: answering does not look at the roster. For a sender who is not on
\* the roster of the session: while a question is open the state test of
\* process_answer lets the answer through; the first answer to the open
\* question is stored with the points computed from the open question's
\* accepted answers and point value, and the sender is on the session's
\* leaderboard from then on; and no step of process_answer changes the roster.
OnRoster(u) == PlayerConflict(db.hj_session_players, self.session_id, u)

AnswerLabels == {"pa372", "pa373", "pa379", "pa385", "pa386", "pa389", "pa398"}

====
